---- MODULE Spec2Model ----
(***************************************************************************)
(* A model of dc-template-linter: the command line run loop (main), the    *)
(* template validation of libdctlint (GetAndCheckTemplate, checkTemplate,  *)
(* checkRecord and their helpers), the SINT string-integer type and the    *)
(* CheckSeverity bit flags.                                                *)
(*                                                                         *)
(* Strings are modelled as sequences of one-character strings, so that     *)
(* concatenation, scanning and parsing are computed as the code computes   *)
(* them.  Severities are the uint8 bit flags of package exitvals.          *)
(***************************************************************************)
EXTENDS Integers, Sequences, FiniteSets, TLC

VARIABLES
    pc,         \* position of main: "loop", "exited", "crashed"; "call", "ret", "ret2" where one function is studied
    conf,       \* libdctlint.Conf: the flags of the run
    toleration, \* the -tolerate flag
    nargs,      \* flag.NArg()
    idx,        \* number of file arguments handled so far
    exitVal,    \* main's exitVal: the combined severity of the run
    collision,  \* conf.collision: the keys of the templates checked so far
    last,       \* what handling the latest input did (its input and its results)
    status,     \* the process exit status, -1 while the process runs
    seen,       \* history: the (providerId, serviceId) pairs of the documents decoded so far
    call        \* arguments and results of the function studied on its own

vars == <<pc, conf, toleration, nargs, idx, exitVal, collision, last, status, seen, call>>

----------------------------------------------------------------------------
(* Bounds of the model *)

\* the largest number of file arguments of one run
MaxInputs == 2

----------------------------------------------------------------------------
(* Evaluation *)

\* F applied to the value of e, with e computed once: the variable of a set
\* constructor is bound to a value, where an operator argument or a LET
\* definition would be computed again for each of its uses
Once(e, F(_)) == CHOOSE r \in {F(v) : v \in {e}} : TRUE

----------------------------------------------------------------------------
(* Strings *)

Upper == <<"A","B","C","D","E","F","G","H","I","J","K","L","M",
           "N","O","P","Q","R","S","T","U","V","W","X","Y","Z">>
Lower == <<"a","b","c","d","e","f","g","h","i","j","k","l","m",
           "n","o","p","q","r","s","t","u","v","w","x","y","z">>
Digits == <<"0","1","2","3","4","5","6","7","8","9">>

\* the printable ASCII characters in code point order, from space (32) to tilde (126);
\* "BQ" stands for the backquote (96), which a TLA+ string cannot hold
Ascii == <<" ","!","\"","#","$","%","&","'","(",")","*","+",",","-",".","/">>
         \o Digits \o <<":",";","<","=",">","?","@">>
         \o Upper \o <<"[","\\","]","^","_","BQ">>
         \o Lower \o <<"{","|","}","~">>

\* the code point of a character (tab, newline and carriage return included)
Ord(c) ==
    IF c = "\t" THEN 9
    ELSE IF c = "\n" THEN 10
    ELSE IF c = "\r" THEN 13
    ELSE 31 + (CHOOSE i \in 1..Len(Ascii) : Ascii[i] = c)

IsDigit(c) == \E i \in 1..10 : Digits[i] = c
DigitVal(c) == (CHOOSE i \in 1..10 : Digits[i] = c) - 1
IsUpperC(c) == \E i \in 1..26 : Upper[i] = c
IsLowerC(c) == \E i \in 1..26 : Lower[i] = c

\* strings.ToLower / strings.ToUpper on one character
ToLowerC(c) == IF IsUpperC(c) THEN Lower[CHOOSE i \in 1..26 : Upper[i] = c] ELSE c
ToUpperC(c) == IF IsLowerC(c) THEN Upper[CHOOSE i \in 1..26 : Lower[i] = c] ELSE c
ToLower(s) == [i \in 1..Len(s) |-> ToLowerC(s[i])]
ToUpper(s) == [i \in 1..Len(s) |-> ToUpperC(s[i])]

\* strings.Count(s, c) for a one-character c
Count(s, c) == Cardinality({i \in 1..Len(s) : s[i] = c})

\* strings.Contains(s, sub), strings.HasPrefix, strings.HasSuffix
HasPrefix(s, p) == Len(p) <= Len(s) /\ SubSeq(s, 1, Len(p)) = p
HasSuffix(s, p) == Len(p) <= Len(s) /\ SubSeq(s, Len(s) - Len(p) + 1, Len(s)) = p
Contains(s, sub) ==
    \E i \in 1..(Len(s) + 1) : i + Len(sub) - 1 <= Len(s) /\ SubSeq(s, i, i + Len(sub) - 1) = sub

\* strings.Split(s, sep) for a one-character sep: always at least one element
RECURSIVE SplitFrom(_, _, _, _)
SplitFrom(s, sep, i, cur) ==
    IF i > Len(s) THEN <<cur>>
    ELSE IF s[i] = sep THEN <<cur>> \o SplitFrom(s, sep, i + 1, <<>>)
    ELSE SplitFrom(s, sep, i + 1, Append(cur, s[i]))
Split(s, sep) == SplitFrom(s, sep, 1, <<>>)

\* unicode.IsSpace on the characters of the model
IsSpaceC(c) == c \in {" ", "\t", "\n", "\r"}

----------------------------------------------------------------------------
(* package exitvals: CheckSeverity is a uint8 of bit flags *)

CheckOK == 0
CheckDebug == 1
CheckInfo == 2
CheckWarn == 4
CheckError == 8
CheckFatal == 16

\* every value a CheckSeverity built from the five flags can take
Severities == 0..31

\* the Go operator | on two CheckSeverity values, bit by bit
BitOrBits[a \in Nat, b \in Nat] ==
    IF a = 0 THEN b
    ELSE IF b = 0 THEN a
    ELSE (IF a % 2 = 1 \/ b % 2 = 1 THEN 1 ELSE 0) + 2 * BitOrBits[a \div 2, b \div 2]
BitOr(a, b) == BitOrBits[a, b]

\* the Go operator & on two CheckSeverity values, bit by bit
BitAndBits[a \in Nat, b \in Nat] ==
    IF a = 0 \/ b = 0 THEN 0
    ELSE (IF a % 2 = 1 /\ b % 2 = 1 THEN 1 ELSE 0) + 2 * BitAndBits[a \div 2, b \div 2]
BitAnd(a, b) == BitAndBits[a, b]

\* a plausible slip: severities added instead of or-ed
SeverityOrAdded(a, b) == (a + b) % 256

\* exitVal |= x : the aggregation used by main, checkTemplate and checkRecord
SeverityOr(a, b) == BitOr(a, b)

\* whether flag f is present in severity s
Has(s, f) == BitAnd(s, f) # 0

\* the ordinal of the most severe level present: OK 0 < Debug 1 < Info 2 < Warn 3 < Error 4 < Fatal 5
MostSevere(s) ==
    IF Has(s, CheckFatal) THEN 5
    ELSE IF Has(s, CheckError) THEN 4
    ELSE IF Has(s, CheckWarn) THEN 3
    ELSE IF Has(s, CheckInfo) THEN 2
    ELSE IF Has(s, CheckDebug) THEN 1
    ELSE 0

Max(a, b) == IF a >= b THEN a ELSE b

----------------------------------------------------------------------------
(* Numerals: a number too large for the checker's integers is kept as its   *)
(* decimal digits, without leading zeros, and compared digit by digit.      *)

AllDigits(s) == \A i \in 1..Len(s) : IsDigit(s[i])

RECURSIVE StripZeros(_)
StripZeros(s) ==
    IF Len(s) > 1 /\ s[1] = "0" THEN StripZeros(Tail(s)) ELSE s

\* a < b for two numerals
NumLess(a, b) ==
    \/ Len(a) < Len(b)
    \/ /\ Len(a) = Len(b)
       /\ \E i \in 1..Len(a) :
            /\ DigitVal(a[i]) < DigitVal(b[i])
            /\ \A j \in 1..(i - 1) : a[j] = b[j]

\* fmt.Sprintf("%d", n) for a small n >= 0
RECURSIVE Itoa(_)
Itoa(n) == IF n < 10 THEN <<Digits[n + 1]>> ELSE Append(Itoa(n \div 10), Digits[(n % 10) + 1])

\* the value of a numeral modulo 2^16, as the conversion uint16(i) keeps it
RECURSIVE Mod16From(_, _, _)
Mod16From(s, i, acc) ==
    IF i > Len(s) THEN acc ELSE Mod16From(s, i + 1, (acc * 10 + DigitVal(s[i])) % 65536)
Mod16(s) == Mod16From(s, 1, 0)

max16b == 65535
Num_max31b == <<"2","1","4","7","4","8","3","6","4","7">>
Num_MaxTTL == <<"2","1","4","7","4","8","3","6","4","7">>
Num_MaxUint32 == <<"4","2","9","4","9","6","7","2","9","5">>
Num_MaxInt64 == <<"9","2","2","3","3","7","2","0","3","6","8","5","4","7","7","5","8","0","7">>
Num_MinInt64Abs == <<"9","2","2","3","3","7","2","0","3","6","8","5","4","7","7","5","8","0","8">>
Zero == <<"0">>

----------------------------------------------------------------------------
(* internal.SINT: a string holding an integer, a quoted integer or a        *)
(* %variable%                                                               *)

Quote == "\""
IsJSONSpace(c) == c \in {" ", "\t", "\n", "\r"}

RECURSIVE TrimLeft(_)
TrimLeft(s) == IF Len(s) > 0 /\ IsJSONSpace(s[1]) THEN TrimLeft(Tail(s)) ELSE s
RECURSIVE TrimRight(_)
TrimRight(s) ==
    IF Len(s) > 0 /\ IsJSONSpace(s[Len(s)]) THEN TrimRight(SubSeq(s, 1, Len(s) - 1)) ELSE s
\* strings.TrimSpace, and the white space the JSON scanner skips around a value
TrimSpace(s) == TrimRight(TrimLeft(s))

\* strconv.Unquote on a JSON token: a double-quoted string without escapes
\* gives its content, anything else is an error (the tokens of the model
\* hold no backslash)
CanUnquote(b) ==
    /\ Len(b) >= 2
    /\ b[1] = Quote
    /\ b[Len(b)] = Quote
    /\ \A i \in 2..(Len(b) - 1) : b[i] \notin {Quote, "\\", "\n"}

\* SINT.UnmarshalJSON: the unquoted string, or the raw bytes of the value
UnmarshalSINT(b) == IF CanUnquote(b) THEN SubSeq(b, 2, Len(b) - 1) ELSE b

\* a JSON number that strconv.ParseUint(s, 10, 64) accepts: digits only, and
\* no leading zero (the JSON grammar) unless the number is 0
IsPlainUint(s) == Len(s) >= 1 /\ AllDigits(s) /\ (Len(s) = 1 \/ s[1] # "0")

\* json.Unmarshal(text, &i) for i uint32: [err, v]. null leaves i at zero
\* without an error; a number must be an unsigned integer below 2^32; every
\* other text (a negative, a fraction, an exponent, a string, no JSON) fails
\* and leaves i at zero.
UnmarshalUint32(text) ==
    LET t == TrimSpace(text) IN
    IF t = <<"n","u","l","l">> THEN [err |-> FALSE, v |-> Zero]
    ELSE IF IsPlainUint(t) /\ ~NumLess(Num_MaxUint32, t) THEN [err |-> FALSE, v |-> t]
    ELSE [err |-> TRUE, v |-> Zero]

\* SINT.Uint32: (value, ok); a failed conversion is ok when the string holds
\* two or more % characters
Uint32(sint) ==
    LET r == UnmarshalUint32(sint) IN
    IF r.err THEN [v |-> r.v, ok |-> Count(sint, "%") > 1]
    ELSE [v |-> r.v, ok |-> TRUE]

\* strconv.Atoi: [err, neg, abs] with abs a numeral; an optional sign, then
\* one or more digits, within the range of int (64 bits)
Atoi(s) ==
    LET signed == Len(s) > 0 /\ s[1] \in {"+", "-"}
        neg == Len(s) > 0 /\ s[1] = "-"
        body == IF signed THEN Tail(s) ELSE s
        abs == StripZeros(body)
    IN  IF Len(body) = 0 \/ ~AllDigits(body) THEN [err |-> TRUE, neg |-> FALSE, abs |-> Zero]
        ELSE IF neg /\ NumLess(Num_MinInt64Abs, abs) THEN [err |-> TRUE, neg |-> FALSE, abs |-> Zero]
        ELSE IF ~neg /\ NumLess(Num_MaxInt64, abs) THEN [err |-> TRUE, neg |-> FALSE, abs |-> Zero]
        ELSE [err |-> FALSE, neg |-> neg, abs |-> abs]

\* uint16(i) for the int that Atoi returned: the low 16 bits, two's complement
ToUint16(a) ==
    LET m == Mod16(a.abs) IN IF a.neg THEN (65536 - m) % 65536 ELSE m

\* SINT.Uint16: (value, ok), the value an Int below 2^16
Uint16(sint) ==
    LET a == Atoi(sint) IN
    IF a.err THEN [v |-> 0, ok |-> Count(sint, "%") > 1]
    ELSE [v |-> ToUint16(a), ok |-> TRUE]

\* SINT.SetUint32
SetUint32(value) == Itoa(value)

\* SINT.MarshalJSON, followed by the validation encoding/json applies to what
\* a Marshaler returns: "panic" on the empty string (s[0] is out of range),
\* "error" on a string that neither starts with a digit nor is %...%, or
\* that would not be a valid JSON string once quoted, else the quoted string
MarshalSINT(sint) ==
    IF Len(sint) = 0 THEN [res |-> "panic", b |-> <<>>]
    ELSE IF ~IsDigit(sint[1]) /\ (sint[1] # "%" \/ sint[Len(sint)] # "%")
        THEN [res |-> "error", b |-> <<>>]
    ELSE IF \E i \in 1..Len(sint) : sint[i] \in {Quote, "\\", "\n", "\t", "\r"}
        THEN [res |-> "error", b |-> <<>>]
    ELSE [res |-> "ok", b |-> <<Quote>> \o sint \o <<Quote>>]

\* isVariable
isVariable(s) == Count(s, "%") > 1

----------------------------------------------------------------------------
(* Findings: what a check returns (sev) and what it logs (log).  A log      *)
(* entry holds the zerolog level, the DCTL code (0 when the message has     *)
(* none), the key the message names and the record number (-1 for a         *)
(* template level message).                                                 *)

NoFinding == [sev |-> CheckOK, log |-> {}]
Finding(sev, lvl, code, key, rnum) ==
    [sev |-> sev, log |-> {[lvl |-> lvl, code |-> code, key |-> key, rnum |-> rnum]}]
Join(a, b) ==
    Once(<<a, b>>, LAMBDA v : [sev |-> SeverityOr(v[1].sev, v[2].sev),
                               log |-> v[1].log \cup v[2].log])
When(cond, f) == IF cond THEN f ELSE NoFinding

RECURSIVE OrAll(_, _)
OrAll(fs, i) == IF i > Len(fs) THEN CheckOK ELSE SeverityOr(fs[i].sev, OrAll(fs, i + 1))
JoinAll(fs) ==
    Once(fs, LAMBDA v : [sev |-> OrAll(v, 1), log |-> UNION {v[i].log : i \in 1..Len(v)}])

----------------------------------------------------------------------------
(* Record types *)

strCNAME == <<"C","N","A","M","E">>
strNS == <<"N","S">>
strA == <<"A">>
strAAAA == <<"A","A","A","A">>
strTXT == <<"T","X","T">>
strMX == <<"M","X">>
strSRV == <<"S","R","V">>
strSPFM == <<"S","P","F","M">>
strAPEXCNAME == <<"A","P","E","X","C","N","A","M","E">>
strREDIR301 == <<"R","E","D","I","R","3","0","1">>
strREDIR302 == <<"R","E","D","I","R","3","0","2">>

----------------------------------------------------------------------------
(* checkUnderscoreNames: the RFC 8552 table of underscore labels *)

TypeNS == 2
TypeCNAME == 5
TypeNULL == 10
TypeTXT == 16
TypeSRV == 33
TypeTLSA == 52
TypeSMIMEA == 53
TypeOPENPGPKEY == 61
TypeSVCB == 64
TypeHTTPS == 65
TypeURI == 256

recordToType ==
    { <<strNS, TypeNS>>, <<strCNAME, TypeCNAME>>, <<<<"N","U","L","L">>, TypeNULL>>,
      <<strTXT, TypeTXT>>, <<strSRV, TypeSRV>>, <<<<"T","L","S","A">>, TypeTLSA>>,
      <<<<"S","M","I","M","E","A">>, TypeSMIMEA>>,
      <<<<"O","P","E","N","P","G","P","K","E","Y">>, TypeOPENPGPKEY>>,
      <<<<"S","V","C","B">>, TypeSVCB>>, <<<<"H","T","T","P","S">>, TypeHTTPS>>,
      <<<<"U","R","I">>, TypeURI>> }

rfc8552 ==
    { [label |-> <<"_","a","c","c","t">>,
       types |-> {TypeURI}],
      [label |-> <<"_","a","c","m","e","-","c","h","a","l","l","e","n","g","e">>,
       types |-> {TypeTXT}],
      [label |-> <<"_","d","a","n","e">>,
       types |-> {TypeTLSA}],
      [label |-> <<"_","d","c","c","p">>,
       types |-> {TypeSRV, TypeURI}],
      [label |-> <<"_","d","m","a","r","c">>,
       types |-> {TypeTXT}],
      [label |-> <<"_","d","n","s">>,
       types |-> {TypeSVCB}],
      [label |-> <<"_","d","o","m","a","i","n","k","e","y">>,
       types |-> {TypeTXT}],
      [label |-> <<"_","e","m","a","i","l">>,
       types |-> {TypeURI}],
      [label |-> <<"_","e","m","s">>,
       types |-> {TypeURI}],
      [label |-> <<"_","f","a","x">>,
       types |-> {TypeURI}],
      [label |-> <<"_","f","t">>,
       types |-> {TypeURI}],
      [label |-> <<"_","h","3","2","3">>,
       types |-> {TypeURI}],
      [label |-> <<"_","h","t","t","p","s">>,
       types |-> {TypeHTTPS}],
      [label |-> <<"_","h","t","t","p">>,
       types |-> {TypeSRV}],
      [label |-> <<"_","i","a","x">>,
       types |-> {TypeURI}],
      [label |-> <<"_","i","c","a","l","-","a","c","c","e","s","s">>,
       types |-> {TypeURI}],
      [label |-> <<"_","i","c","a","l","-","s","c","h","e","d">>,
       types |-> {TypeURI}],
      [label |-> <<"_","i","f","a","x">>,
       types |-> {TypeURI}],
      [label |-> <<"_","i","m">>,
       types |-> {TypeURI}],
      [label |-> <<"_","i","p","v","6">>,
       types |-> {TypeSRV}],
      [label |-> <<"_","l","d","a","p">>,
       types |-> {TypeSRV}],
      [label |-> <<"_","m","m","s">>,
       types |-> {TypeURI}],
      [label |-> <<"_","m","t","a","-","s","t","s">>,
       types |-> {TypeTXT}],
      [label |-> <<"_","o","c","s","p">>,
       types |-> {TypeSRV}],
      [label |-> <<"_","o","p","e","n","p","g","p","k","e","y">>,
       types |-> {TypeOPENPGPKEY}],
      [label |-> <<"_","p","r","e","s">>,
       types |-> {TypeURI}],
      [label |-> <<"_","p","s","t","n">>,
       types |-> {TypeURI}],
      [label |-> <<"_","s","c","t","p">>,
       types |-> {TypeSRV, TypeTLSA, TypeURI}],
      [label |-> <<"_","s","i","p">>,
       types |-> {TypeSRV, TypeURI}],
      [label |-> <<"_","s","m","i","m","e","c","e","r","t">>,
       types |-> {TypeSMIMEA}],
      [label |-> <<"_","s","m","s">>,
       types |-> {TypeURI}],
      [label |-> <<"_","s","p","f">>,
       types |-> {TypeTXT}],
      [label |-> <<"_","s","z","t","p">>,
       types |-> {TypeTXT}],
      [label |-> <<"_","t","a","-","*">>,
       types |-> {TypeNULL}],
      [label |-> <<"_","t","c","p">>,
       types |-> {TypeTXT, TypeSRV, TypeTLSA, TypeURI}],
      [label |-> <<"_","u","d","p">>,
       types |-> {TypeTXT, TypeSRV, TypeTLSA, TypeURI}],
      [label |-> <<"_","u","n","i","f","m","s","g">>,
       types |-> {TypeURI}],
      [label |-> <<"_","v","a","l","i","d","a","t","i","o","n","-","c","o","n","t","a","c","t","e","m","a","i","l">>,
       types |-> {TypeTXT}],
      [label |-> <<"_","v","a","l","i","d","a","t","i","o","n","-","c","o","n","t","a","c","t","p","h","o","n","e">>,
       types |-> {TypeTXT}],
      [label |-> <<"_","v","c","a","r","d">>,
       types |-> {TypeURI}],
      [label |-> <<"_","v","i","d","e","o","m","s","g">>,
       types |-> {TypeURI}],
      [label |-> <<"_","v","o","i","c","e","m","s","g">>,
       types |-> {TypeURI}],
      [label |-> <<"_","v","o","i","c","e">>,
       types |-> {TypeURI}],
      [label |-> <<"_","v","o","u","c","h">>,
       types |-> {TypeTXT}],
      [label |-> <<"_","v","p","i","m">>,
       types |-> {TypeURI}],
      [label |-> <<"_","w","e","b">>,
       types |-> {TypeURI}],
      [label |-> <<"_","x","m","p","p">>,
       types |-> {TypeSRV, TypeURI}] }

\* strings.Index(elem, "_"), zero based, -1 when there is none
IndexOf(s, c) ==
    IF \E i \in 1..Len(s) : s[i] = c
    THEN (CHOOSE i \in 1..Len(s) : s[i] = c /\ \A j \in 1..(i - 1) : s[j] # c) - 1
    ELSE -1

\* isStaticLabelUnderscore: an underscore met while no %variable% is open
RECURSIVE StaticUnderscoreFrom(_, _, _)
StaticUnderscoreFrom(elem, i, within) ==
    IF i > Len(elem) THEN FALSE
    ELSE LET w == IF elem[i] = "%" THEN ~within ELSE within IN
         IF ~w /\ elem[i] = "_" THEN TRUE ELSE StaticUnderscoreFrom(elem, i + 1, w)
isStaticLabelUnderscore(elem) == StaticUnderscoreFrom(elem, 1, FALSE)

\* the loop body without the exemption of NS and CNAME
checkUnderscoreLabelNoExemption(rrtype, elem, rnum) ==
    IF IndexOf(elem, "_") > 1 /\ isStaticLabelUnderscore(elem)
        THEN Finding(CheckInfo, "info", 1025, "host", rnum)
    ELSE IF Len(elem) = 0 \/ elem[1] # "_" THEN NoFinding
    ELSE IF ~\E e \in rfc8552 : e.label = ToLower(elem)
        THEN Finding(CheckDebug, "debug", 1021, "host", rnum)
    ELSE IF ~\E p \in recordToType : p[1] = ToUpper(rrtype)
        THEN Finding(CheckInfo, "info", 1021, "host", rnum)
    ELSE LET okTypes == (CHOOSE e \in rfc8552 : e.label = ToLower(elem)).types
             templateType == (CHOOSE p \in recordToType : p[1] = ToUpper(rrtype))[2]
         IN  When(templateType \notin okTypes,
                  Finding(CheckInfo, "info", 1021, "host", rnum))

\* the body of the loop of checkUnderscoreNames for one label
checkUnderscoreLabel(rrtype, elem, rnum) ==
    IF IndexOf(elem, "_") > 1 /\ isStaticLabelUnderscore(elem)
        THEN Finding(CheckInfo, "info", 1025, "host", rnum)
    ELSE IF Len(elem) = 0 \/ elem[1] # "_" THEN NoFinding
    ELSE IF ~\E e \in rfc8552 : e.label = ToLower(elem)
        THEN Finding(CheckDebug, "debug", 1021, "host", rnum)
    ELSE IF ~\E p \in recordToType : p[1] = ToUpper(rrtype)
        THEN Finding(CheckInfo, "info", 1021, "host", rnum)
    ELSE LET okTypes == (CHOOSE e \in rfc8552 : e.label = ToLower(elem)).types
             templateType == (CHOOSE p \in recordToType : p[1] = ToUpper(rrtype))[2]
         IN  When(templateType \notin ({TypeNS, TypeCNAME} \cup okTypes),
                  Finding(CheckInfo, "info", 1021, "host", rnum))

checkUnderscoreNames(rrtype, host, rnum) ==
    LET labels == Split(host, ".") IN
    JoinAll([i \in 1..Len(labels) |-> checkUnderscoreLabel(rrtype, labels[i], rnum)])

----------------------------------------------------------------------------
(* findInvalidTemplateStrings / checkSingleString / isDenied *)

allowedChars ==
    <<"-">> \o Digits \o Upper \o <<"_">> \o Lower

\* isDenied: a binary search of allowedChars, by code point
RECURSIVE isDeniedSearch(_, _, _, _)
isDeniedSearch(needle, start, end, mid) ==
    IF start > end THEN TRUE
    ELSE LET value == Ord(allowedChars[mid + 1]) IN
         IF value = Ord(needle) THEN FALSE
         ELSE IF value > Ord(needle)
            THEN isDeniedSearch(needle, start, mid - 1, (start + mid - 1) \div 2)
         ELSE isDeniedSearch(needle, mid + 1, end, (mid + 1 + end) \div 2)
isDenied(needle) ==
    isDeniedSearch(needle, 0, Len(allowedChars) - 1, Len(allowedChars) \div 2)

\* the scan of checkSingleString: "denied" when a denied character is met
\* within a variable, else whether a variable is left open at the end
RECURSIVE ScanVars(_, _, _)
ScanVars(input, i, within) ==
    IF i > Len(input) THEN (IF within THEN "open" ELSE "closed")
    ELSE IF input[i] = "%" THEN ScanVars(input, i + 1, ~within)
    ELSE IF within /\ isDenied(input[i]) THEN "denied"
    ELSE ScanVars(input, i + 1, within)

\* the placeholder %host% looked for before the scan
checkSingleStringHostFirst(input, key, rnum) ==
    LET scan == ScanVars(input, 1, FALSE) IN
    IF Contains(input, <<"%","h","o","s","t","%">>)
        THEN Finding(CheckInfo, "info", 1024, key, rnum)
    ELSE IF scan = "denied" THEN Finding(CheckWarn, "warn", 1019, key, rnum)
    ELSE IF scan = "open" THEN Finding(CheckError, "error", 1020, key, rnum)
    ELSE NoFinding

checkSingleString(input, key, rnum) ==
    LET scan == ScanVars(input, 1, FALSE) IN
    IF scan = "denied" THEN Finding(CheckWarn, "warn", 1019, key, rnum)
    ELSE IF Contains(input, <<"%","h","o","s","t","%">>)
        THEN Finding(CheckInfo, "info", 1024, key, rnum)
    ELSE IF scan = "open" THEN Finding(CheckError, "error", 1020, key, rnum)
    ELSE NoFinding

findInvalidTemplateStrings(record, rnum) ==
    JoinAll(<< checkSingleString(record.host, "host", rnum),
               checkSingleString(record.name, "name", rnum),
               checkSingleString(record.pointsTo, "pointsTo", rnum),
               checkSingleString(record.data, "data", rnum),
               checkSingleString(record.txtCMP, "txtConflictMatchingPrefix", rnum),
               checkSingleString(record.service, "service", rnum),
               checkSingleString(record.target, "target", rnum),
               checkSingleString(record.spfRules, "spfRules", rnum) >>)

\* checkHostForDeniedChars
checkHostForDeniedChars(host) ==
    /\ host # <<"*">>
    /\ host # <<"@">>
    /\ \E i \in 1..Len(host) : host[i] \notin {".", "%"} /\ isDenied(host[i])

----------------------------------------------------------------------------
(* checkSPFRules *)

\* strings.Fields: the maximal runs of non-space characters
RECURSIVE FieldsFrom(_, _, _)
FieldsFrom(s, i, cur) ==
    IF i > Len(s) THEN (IF Len(cur) > 0 THEN <<cur>> ELSE <<>>)
    ELSE IF IsSpaceC(s[i])
        THEN (IF Len(cur) > 0 THEN <<cur>> ELSE <<>>) \o FieldsFrom(s, i + 1, <<>>)
    ELSE FieldsFrom(s, i + 1, Append(cur, s[i]))
Fields(s) == FieldsFrom(s, 1, <<>>)

\* modifierRe, ^((?i)[a-z][a-z0-9_.-]*)=(.*) : the name before the first =
\* when the field has the form of a modifier, else the empty string
IsNameChar(c) == IsLowerC(c) \/ IsUpperC(c) \/ IsDigit(c) \/ c \in {"_", ".", "-"}
ModifierName(field) ==
    LET eq == IndexOf(field, "=") IN
    IF /\ eq >= 1
       /\ IsLowerC(field[1]) \/ IsUpperC(field[1])
       /\ \A i \in 1..eq : IsNameChar(field[i])
    THEN SubSeq(field, 1, eq)
    ELSE <<>>

\* the mechanism name of a field: a leading qualifier and a : argument removed
MechanismName(field) ==
    LET f1 == IF field[1] \in {"+", "-", "~", "?"} THEN Tail(field) ELSE field
        sep == IndexOf(f1, ":")
    IN  IF sep > -1 THEN SubSeq(f1, 1, sep) ELSE f1

spfMechanisms ==
    { <<"i","n","c","l","u","d","e">>, <<"a">>, <<"m","x">>, <<"p","t","r">>,
      <<"i","p","4">>, <<"i","p","6">>, <<"e","x","i","s","t","s">> }

\* the loop over the fields, with the spfTrack of the modifiers seen so far
RECURSIVE spfFields(_, _, _, _, _)
spfFields(fields, i, redirect, exp, rnum) ==
    IF i > Len(fields) THEN NoFinding
    ELSE LET field == fields[i]
             name == ModifierName(field)
         IN
         IF isVariable(field) THEN spfFields(fields, i + 1, redirect, exp, rnum)
         ELSE IF name = <<"r","e","d","i","r","e","c","t">>
            THEN Join(When(redirect, Finding(CheckError, "error", 1018, "redirect", rnum)),
                      spfFields(fields, i + 1, TRUE, exp, rnum))
         ELSE IF name = <<"e","x","p">>
            THEN Join(When(exp, Finding(CheckError, "error", 1018, "exp", rnum)),
                      spfFields(fields, i + 1, redirect, TRUE, rnum))
         ELSE IF name # <<>>
            THEN Join(Finding(CheckError, "error", 1017, "data", rnum),
                      spfFields(fields, i + 1, redirect, exp, rnum))
         ELSE Join(When(MechanismName(field) \notin spfMechanisms,
                        Finding(CheckError, "error", 1017, "modifier", rnum)),
                   spfFields(fields, i + 1, redirect, exp, rnum))

checkSPFRules(rules, rnum) ==
    IF rules = <<>> THEN Finding(CheckError, "error", 1013, "spfRules", rnum)
    ELSE JoinAll(<<
        When(HasPrefix(rules, <<"v","=","s","p","f","1">>),
             Finding(CheckError, "error", 1017, "v=spf1", rnum)),
        When(HasSuffix(rules, <<"a","l","l">>),
             Finding(CheckError, "error", 1017, "all", rnum)),
        spfFields(Fields(rules), 1, FALSE, FALSE, rnum) >>)

----------------------------------------------------------------------------
(* targetCheck, isInvalidProtocol, requiresTTL, findDuplicates *)

\* the mutuallyExclusive fields of a record with their values; name is
\* skipped for SRV
OtherTargets(record, requiredField) ==
    { f \in {"data", "name", "pointsTo", "target"} :
        /\ f # requiredField
        /\ ~(record.type = strSRV /\ f = "name")
        /\ record[f] # <<>> }

targetCheck(record, requiredField, rnum) ==
    [sev |-> SeverityOr(IF record[requiredField] = <<>> THEN CheckError ELSE CheckOK,
                        IF OtherTargets(record, requiredField) # {} THEN CheckInfo ELSE CheckOK),
     log |-> (IF record[requiredField] = <<>>
                THEN {[lvl |-> "error", code |-> 8, key |-> requiredField, rnum |-> rnum]}
                ELSE {})
             \cup {[lvl |-> "info", code |-> 9, key |-> f, rnum |-> rnum] :
                        f \in OtherTargets(record, requiredField)}]

isInvalidProtocol(proto) ==
    IF ToLower(proto) \in {<<"_","t","c","p">>, <<"_","u","d","p">>, <<"_","t","l","s">>}
    THEN FALSE
    ELSE Count(proto, "%") = 0

requiresTTL(recordType) ==
    recordType \in {strCNAME, strNS, strA, strAAAA, strTXT, strMX, strSRV}

\* the checksum of a new record is not stored
findDuplicatesNotStored(record, duplicates, rnum) ==
    IF record \in duplicates
    THEN [f |-> Finding(CheckWarn, "warn", 1023, "checksum", rnum), duplicates |-> duplicates]
    ELSE [f |-> NoFinding, duplicates |-> duplicates]

\* findDuplicates: the checksum of the gob encoding of the record, taken to be
\* free of collisions, so that the record stands for its checksum
findDuplicates(record, duplicates, rnum) ==
    IF record \in duplicates
    THEN [f |-> Finding(CheckWarn, "warn", 1023, "checksum", rnum), duplicates |-> duplicates]
    ELSE [f |-> NoFinding, duplicates |-> duplicates \cup {record}]

----------------------------------------------------------------------------
(* checkRecord *)

strPrefix == <<"P","r","e","f","i","x">>
strNone == <<"N","o","n","e">>
strAll == <<"A","l","l">>
strAlways == <<"A","l","w","a","y","s">>
strOnApply == <<"O","n","A","p","p","l","y">>

\* the key of the conflictingTypes map
ConflictKey(record) == record.groupId \o <<"/">> \o record.host

\* "Try to catch CNAME usage with other records"
cnameCheck(record, conflictingTypes, rnum) ==
    LET key == ConflictKey(record) IN
    When(/\ key \in DOMAIN conflictingTypes
         /\ (conflictingTypes[key] = strCNAME \/ record.type = strCNAME),
         Finding(CheckError, "error", 1011, "host", rnum))

\* conflictingTypes[record.GroupID+"/"+record.Host] = record.Type
SetConflict(conflictingTypes, record) ==
    [k \in DOMAIN conflictingTypes \cup {ConflictKey(record)} |->
        IF k = ConflictKey(record) THEN record.type ELSE conflictingTypes[k]]

hostEmptyCheck(record, rnum) ==
    When(record.host = <<>>, Finding(CheckError, "error", 1013, "host", rnum))

\* priority and weight: if v, ok := x.Uint32(); !ok || max31b < v
range31Check(sint, key, rnum) ==
    LET r == Uint32(sint) IN
    When(~r.ok \/ NumLess(Num_max31b, r.v), Finding(CheckError, "error", 1015, key, rnum))

\* port: if port, ok := record.Port.Uint16(); !ok || max16b < port
portCheck(sint, rnum) ==
    LET r == Uint16(sint) IN
    When(~r.ok \/ max16b < r.v, Finding(CheckError, "error", 1015, "port", rnum))

\* the type switch
typeCheck(cf, template, record, rnum) ==
    IF record.type \in {strCNAME, strNS} THEN
        JoinAll(<<
            When(record.host = <<"@">> /\ cf.cloudflare,
                 Finding(CheckInfo, "info", 5007, "host", rnum)),
            When(record.host = <<"@">> /\ ~cf.cloudflare /\ ~template.hostRequired,
                 Finding(CheckError, "error", 1012, "host", rnum)),
            hostEmptyCheck(record, rnum),
            targetCheck(record, "pointsTo", rnum) >>)
    ELSE IF record.type \in {strA, strAAAA} THEN
        Join(hostEmptyCheck(record, rnum), targetCheck(record, "pointsTo", rnum))
    ELSE IF record.type = strTXT THEN
        JoinAll(<<
            hostEmptyCheck(record, rnum),
            targetCheck(record, "data", rnum),
            When(cf.cloudflare /\ (record.txtCMM # <<>> \/ record.txtCMM = strNone),
                 Finding(CheckInfo, "info", 5008, "txtConflictMatchingMode", rnum)),
            When(cf.cloudflare /\ record.txtCMP # <<>>,
                 Finding(CheckInfo, "info", 5008, "txtConflictMatchingPrefix", rnum)),
            When(~cf.cloudflare /\ record.txtCMM = strPrefix /\ record.txtCMP = <<>>,
                 Finding(CheckWarn, "warn", 1013, "txtConflictMatchingPrefix", rnum)),
            When(Contains(record.data, <<"v","=","s","p","f","1">>),
                 Finding(CheckInfo, "info", 1014, "data", rnum)) >>)
    ELSE IF record.type = strMX THEN
        JoinAll(<<
            hostEmptyCheck(record, rnum),
            targetCheck(record, "pointsTo", rnum),
            range31Check(record.priority, "priority", rnum) >>)
    ELSE IF record.type = strSRV THEN
        JoinAll(<<
            targetCheck(record, "target", rnum),
            When(isInvalidProtocol(record.protocol),
                 Finding(CheckWarn, "warn", 1015, "protocol", rnum)),
            range31Check(record.priority, "priority", rnum),
            When(record.service = <<>>, Finding(CheckError, "error", 1013, "service", rnum)),
            range31Check(record.weight, "weight", rnum),
            portCheck(record.port, rnum) >>)
    ELSE IF record.type = strSPFM THEN
        Join(hostEmptyCheck(record, rnum), checkSPFRules(ToLower(record.spfRules), rnum))
    ELSE IF record.type = strAPEXCNAME THEN
        When(cf.cloudflare, Finding(CheckInfo, "info", 5009, "type", rnum))
    ELSE IF record.type \in {strREDIR301, strREDIR302} THEN
        When(record.target = <<>>, Finding(CheckError, "error", 1013, "target", rnum))
    ELSE Finding(CheckInfo, "info", 1016, "type", rnum)

\* the TTL check with strict mode judging the zero TTL only
ttlCheckStrictSkips(cf, record, rnum) ==
    LET r == Uint32(record.ttl) IN
    IF cf.cloudflare
    THEN When(r.ok /\ r.v = Zero, Finding(CheckInfo, "info", 5010, "ttl", rnum))
    ELSE When(r.ok /\ NumLess(Num_MaxTTL, r.v), Finding(CheckError, "error", 1015, "ttl", rnum))

\* "A calid json int can be out of bounds in DNS"
ttlCheck(cf, record, rnum) ==
    LET r == Uint32(record.ttl) IN
    IF r.ok /\ NumLess(Num_MaxTTL, r.v) THEN Finding(CheckError, "error", 1015, "ttl", rnum)
    ELSE IF r.ok /\ cf.cloudflare /\ r.v = Zero THEN Finding(CheckInfo, "info", 5010, "ttl", rnum)
    ELSE NoFinding

\* the TTL set for every record of a type that has one
ttlBackfillUnguarded(cf, record) == requiresTTL(record.type)

\* whether the record gets conf.ttl as its TTL
ttlBackfill(cf, record) ==
    LET r == Uint32(record.ttl) IN
    /\ ~r.ok
    /\ r.v = Zero
    /\ cf.inplace
    /\ 0 < cf.ttl
    /\ requiresTTL(record.type)
    /\ isVariable(record.ttl)

\* checkRecord: the findings of one record, the record as it is written back
\* to template.Records, and the two running maps
checkRecord(cf, template, rnum, record, conflictingTypes, duplicates) ==
    Once(<<findDuplicates(record, duplicates, rnum), ttlBackfill(cf, record)>>, LAMBDA v :
    LET dup == v[1]
        fill == v[2]
        f == JoinAll(<<
                dup.f,
                cnameCheck(record, conflictingTypes, rnum),
                typeCheck(cf, template, record, rnum),
                checkUnderscoreNames(record.type, record.host, rnum),
                \* logged without raising the severity
                When(checkHostForDeniedChars(record.host),
                     Finding(CheckOK, "error", 1027, "host", rnum)),
                When(isVariable(record.type), Finding(CheckError, "error", 1009, "type", rnum)),
                ttlCheck(cf, record, rnum),
                When(fill, Finding(CheckOK, "info", 0, "ttl", rnum)),
                When(isVariable(record.groupId),
                     Finding(CheckError, "error", 1009, "groupId", rnum)),
                When(isVariable(record.txtCMP),
                     Finding(CheckError, "error", 1009, "txtConflictMatchingPrefix", rnum)),
                When(cf.cloudflare /\ record.essential # <<>>,
                     Finding(CheckInfo, "info", 5011, "essential", rnum)),
                findInvalidTemplateStrings(
                    IF fill THEN [record EXCEPT !.ttl = SetUint32(cf.ttl)] ELSE record, rnum) >>)
    IN  Once(f, LAMBDA g :
        [sev |-> g.sev,
         log |-> g.log,
         record |-> IF fill THEN [record EXCEPT !.ttl = SetUint32(cf.ttl)] ELSE record,
         conflictingTypes |-> SetConflict(conflictingTypes, record),
         duplicates |-> dup.duplicates]))

----------------------------------------------------------------------------
(* Template level helpers *)

validChars ==
    <<"-", ".">> \o Digits \o <<"_">> \o Lower

\* checkInvalidChars: some character whose lower case is not in validChars
checkInvalidChars(s) ==
    \E i \in 1..Len(s) : ~\E j \in 1..Len(validChars) : validChars[j] = ToLowerC(s[i])

\* filepath.Base: the last element of the path, trailing slashes removed
RECURSIVE TrimSlashes(_)
TrimSlashes(s) ==
    IF Len(s) > 0 /\ s[Len(s)] = "/" THEN TrimSlashes(SubSeq(s, 1, Len(s) - 1)) ELSE s
RECURSIVE AfterLastSlash(_, _)
AfterLastSlash(s, i) ==
    IF i = 0 THEN s
    ELSE IF s[i] = "/" THEN SubSeq(s, i + 1, Len(s))
    ELSE AfterLastSlash(s, i - 1)
Base(path) ==
    IF Len(path) = 0 THEN <<".">>
    ELSE LET t == TrimSlashes(path) IN
         IF Len(t) = 0 THEN <<"/">> ELSE AfterLastSlash(t, Len(t))

devStdin == <<"/","d","e","v","/","s","t","d","i","n">>
dotJson == <<".","j","s","o","n">>

\* "Check 6.11.2. File naming requirements"
ExpectedFileName(template) ==
    ToLower(template.providerId) \o <<".">> \o ToLower(template.serviceId) \o dotJson

\* the key of conf.collision
CollisionKey(template) == template.providerId \o <<"/">> \o template.serviceId

\* "Detect ID collisions _across multiple_ templates"
collisionCheck(coll, template) ==
    When(CollisionKey(template) \in coll, Finding(CheckError, "error", 1004, "providerId", -1))

\* conf.collision[...] = true
AddCollision(coll, template) == coll \cup {CollisionKey(template)}

\* the validator tag http_url (go-playground/validator): an http or https
\* URL with something after the scheme
IsHttpURL(s) ==
    \/ HasPrefix(ToLower(s), <<"h","t","t","p",":","/","/">>) /\ Len(s) > 7
    \/ HasPrefix(ToLower(s), <<"h","t","t","p","s",":","/","/">>) /\ Len(s) > 8

\* validate.Struct(template): the fields whose validate tag fails
ValidateTemplate(template) ==
    {f \in {"providerId", "providerName", "serviceId", "serviceName"} :
        Len(template[f]) < 1 \/ Len(template[f]) > (IF f = "serviceName" THEN 255 ELSE 64)}
    \cup (IF template.logoUrl # <<>> /\ ~IsHttpURL(template.logoUrl) THEN {"logoUrl"} ELSE {})
    \cup (IF Len(template.syncPubKeyDomain) > 255 THEN {"syncPubKeyDomain"} ELSE {})

\* validate.Struct(record); the validate tags of priority, weight and port
\* are swallowed by their json tags and do nothing
ValidateRecord(record) ==
    (IF Len(record.type) < 1 \/ Len(record.type) > 16 THEN {"type"} ELSE {})
    \cup (IF record.essential # <<>> /\ record.essential \notin {strAlways, strOnApply}
            THEN {"essential"} ELSE {})
    \cup (IF Len(record.host) > 255 THEN {"host"} ELSE {})
    \cup (IF Len(record.name) > 63 THEN {"name"} ELSE {})
    \cup (IF Len(record.pointsTo) > 255 THEN {"pointsTo"} ELSE {})
    \cup (IF record.type = strTXT /\ record.data = <<>> THEN {"data"} ELSE {})
    \cup (IF record.txtCMM # <<>> /\ record.txtCMM \notin {strNone, strAll, strPrefix}
            THEN {"txtConflictMatchingMode"} ELSE {})
    \cup {f \in {"protocol", "service", "target"} : record.type = strSRV /\ record[f] = <<>>}

validateFindings(template) ==
    [sev |-> IF ValidateTemplate(template) # {}
                \/ \E i \in 1..Len(template.records) : ValidateRecord(template.records[i]) # {}
             THEN CheckWarn ELSE CheckOK,
     log |-> {[lvl |-> "warn", code |-> 1005, key |-> f, rnum |-> -1] : f \in ValidateTemplate(template)}
             \cup UNION {{[lvl |-> "warn", code |-> 1005, key |-> f, rnum |-> i - 1] :
                            f \in ValidateRecord(template.records[i])} :
                         i \in 1..Len(template.records)}]

\* gonet.IsDomain (THREATINT/go-net): dot separated, non-empty labels of
\* letters, digits, - and _
IsDomain(s) ==
    LET labels == Split(s, ".") IN
    /\ Len(s) > 0
    /\ \A i \in 1..Len(labels) :
        /\ Len(labels[i]) > 0
        /\ \A j \in 1..Len(labels[i]) :
            LET c == labels[i][j] IN IsLowerC(c) \/ IsUpperC(c) \/ IsDigit(c) \/ c \in {"-", "_"}

\* gonet.IsFQDN: a domain followed by the root dot
IsFQDN(s) == Len(s) > 1 /\ s[Len(s)] = "." /\ IsDomain(SubSeq(s, 1, Len(s) - 1))

\* checkFQDN: whether it returns an error
checkFQDN(fqdn) ==
    LET d == IF IsFQDN(fqdn) THEN SubSeq(fqdn, 1, Len(fqdn) - 1) ELSE fqdn IN
    IF fqdn = <<>> THEN FALSE
    ELSE IF ~IsDomain(d) THEN TRUE
    ELSE Count(d, ".") = 0

\* checkSyncRedirectDomain: what it logs (sev is not raised here), and
\* whether it returns an error
checkSyncRedirectDomain(srd) ==
    LET srdList == Split(srd, ",") IN
    [log |-> {[lvl |-> "warn", code |-> 1026, key |-> "domain", rnum |-> -1] :
                i \in {j \in 1..Len(srdList) : TrimSpace(srdList[j]) # srdList[j]}},
     err |-> \E i \in 1..Len(srdList) : checkFQDN(TrimSpace(srdList[i]))]

\* only the first whitespace character is removed
RECURSIVE StripSpacesOnce(_)
StripSpacesOnce(str) ==
    IF Len(str) = 0 THEN <<>>
    ELSE IF IsSpaceC(Head(str)) THEN Tail(str)
    ELSE <<Head(str)>> \o StripSpacesOnce(Tail(str))

\* internal.StripSpaces
RECURSIVE StripSpaces(_)
StripSpaces(str) ==
    IF Len(str) = 0 THEN <<>>
    ELSE IF IsSpaceC(Head(str)) THEN StripSpaces(Tail(str))
    ELSE <<Head(str)>> \o StripSpaces(Tail(str))

cloudflareTemplateChecks(template) ==
    JoinAll(<<
        When(template.syncBlock, Finding(CheckError, "error", 5000, "syncBlock", -1)),
        When(template.syncPubKeyDomain = <<>>,
             Finding(CheckError, "error", 5001, "syncPubKeyDomain", -1)),
        When(template.sharedServiceName, Finding(CheckInfo, "info", 5002, "sharedServiceName", -1)),
        When(template.syncRedirectDomain # <<>>,
             Finding(CheckInfo, "info", 5003, "syncRedirectDomain", -1)),
        When(template.multiInstance, Finding(CheckInfo, "info", 5004, "multiInstance", -1)),
        When(template.warnPhishing, Finding(CheckInfo, "info", 5005, "warnPhishing", -1)),
        When(template.hostRequired, Finding(CheckInfo, "info", 5006, "hostRequired", -1)) >>)

----------------------------------------------------------------------------
(* Decoding and encoding of a template.  On the wire the SINT fields of a   *)
(* record and the version are JSON tokens (the empty token: the key is      *)
(* absent); the other fields are the decoded values.                        *)

Num_MaxUint64 ==
    <<"1","8","4","4","6","7","4","4","0","7","3","7","0","9","5","5","1","6","1","5">>

\* the value of a short numeral
RECURSIVE NumVal(_)
NumVal(s) == IF Len(s) = 0 THEN 0 ELSE 10 * NumVal(SubSeq(s, 1, Len(s) - 1)) + DigitVal(s[Len(s)])

\* Version uint: an absent key, or an unsigned JSON integer of 64 bits
VersionDecodes(tok) == tok = <<>> \/ (IsPlainUint(tok) /\ ~NumLess(Num_MaxUint64, tok))

DecodeRecord(w) ==
    [w EXCEPT !.ttl = UnmarshalSINT(w.ttl),
              !.priority = UnmarshalSINT(w.priority),
              !.weight = UnmarshalSINT(w.weight),
              !.port = UnmarshalSINT(w.port)]

\* decoder.Decode(&template): [err, template]
Decode(input) ==
    IF ~input.wellFormed \/ ~VersionDecodes(input.t.version)
    THEN [err |-> TRUE, template |-> [input.t EXCEPT !.version = 0, !.records = <<>>]]
    ELSE [err |-> FALSE,
          template |-> [input.t EXCEPT
                !.version = NumVal(input.t.version),
                !.records = [i \in 1..Len(input.t.records) |-> DecodeRecord(input.t.records[i])]]]

\* the encoding of the SINT fields of one record, in field order: ttl has
\* omitempty; the json tags of priority, weight and port hold
\* "omitempty validate:" as their one option, which is not omitempty, so
\* MarshalJSON is called on them even when they are empty
MarshalRecord(r) ==
    LET ttl == IF r.ttl = <<>> THEN [res |-> "ok", b |-> <<>>] ELSE MarshalSINT(r.ttl)
        pri == MarshalSINT(r.priority)
        wei == MarshalSINT(r.weight)
        por == MarshalSINT(r.port)
        res == IF ttl.res # "ok" THEN ttl.res
               ELSE IF pri.res # "ok" THEN pri.res
               ELSE IF wei.res # "ok" THEN wei.res
               ELSE por.res
    IN  [res |-> res,
         w |-> [r EXCEPT !.ttl = ttl.b, !.priority = pri.b, !.weight = wei.b, !.port = por.b]]

\* the outcome of the first record that does not encode, "ok" when all do
RECURSIVE MarshalRecordsRes(_, _)
MarshalRecordsRes(records, i) ==
    IF i > Len(records) THEN "ok"
    ELSE IF MarshalRecord(records[i]).res # "ok" THEN MarshalRecord(records[i]).res
    ELSE MarshalRecordsRes(records, i + 1)

\* json.Marshal(template): [res, t], res one of "ok", "error", "panic"
Marshal(template) ==
    [res |-> MarshalRecordsRes(template.records, 1),
     t |-> [template EXCEPT
                !.version = IF template.version = 0 THEN <<>> ELSE Itoa(template.version),
                !.records = [i \in 1..Len(template.records) |->
                                MarshalRecord(template.records[i]).w]]]

----------------------------------------------------------------------------
(* The decoding of the earlier SINT, an int: UnmarshalJSON leaves in a       *)
(* package variable whether the value it decoded last was quoted, and        *)
(* GetAndCheckTemplate reads that variable after the document is decoded     *)

\* a JSON number that json.Unmarshal(b, (*int)(sint)) accepts
IsPlainInt(b) ==
    /\ IsPlainUint(IF Len(b) > 0 /\ b[1] = "-" THEN Tail(b) ELSE b)
    /\ ~Atoi(b).err

\* SINT.UnmarshalJSON of the int SINT: [err, exitVal]
LegacyUnmarshalJSON(b) ==
    IF b[1] # Quote
    THEN (IF IsPlainInt(b) THEN [err |-> FALSE, exitVal |-> CheckOK]
          ELSE [err |-> TRUE, exitVal |-> CheckError])
    ELSE IF ~CanUnquote(b) \/ Atoi(SubSeq(b, 2, Len(b) - 1)).err
    THEN [err |-> TRUE, exitVal |-> CheckError]
    ELSE [err |-> FALSE, exitVal |-> CheckWarn]

\* the SINT values of a document in the order of their fields: the version,
\* then ttl, priority, weight and port of each record; absent keys left out
SintTokens(t) ==
    LET of(r) == SelectSeq(<<r.ttl, r.priority, r.weight, r.port>>, LAMBDA b : b # <<>>)
        RECURSIVE all(_)
        all(i) == IF i > Len(t.records) THEN <<>> ELSE of(t.records[i]) \o all(i + 1)
    IN  (IF t.version = <<>> THEN <<>> ELSE <<t.version>>) \o all(1)

\* decoder.Decode followed by GetUnmarshalStatus: every UnmarshalJSON sets
\* the package variable anew, the first one that fails ends the decoding
RECURSIVE LegacyDecode(_, _, _)
LegacyDecode(tokens, i, exitValSoFar) ==
    IF i > Len(tokens) THEN [err |-> FALSE, exitVal |-> exitValSoFar]
    ELSE IF LegacyUnmarshalJSON(tokens[i]).err
        THEN [err |-> TRUE, exitVal |-> LegacyUnmarshalJSON(tokens[i]).exitVal]
    ELSE LegacyDecode(tokens, i + 1, LegacyUnmarshalJSON(tokens[i]).exitVal)

GetUnmarshalStatus(input) ==
    IF ~input.wellFormed THEN [err |-> TRUE, exitVal |-> CheckOK]
    ELSE LegacyDecode(SintTokens(input.t), 1, CheckOK)

----------------------------------------------------------------------------
(* writeBack and the write to standard output: the outcome io of the file   *)
(* system is an input of the model                                          *)

IOOutcomes == {"ok", "createfail", "writefail", "flushfail", "renamefail"}

writeBack(io) ==
    IF io = "createfail" THEN Finding(CheckError, "warn", 5, "file", -1)
    ELSE IF io = "writefail" THEN Finding(CheckError, "warn", 4, "file", -1)
    ELSE IF io = "flushfail" THEN Finding(CheckFatal, "error", 0, "file", -1)
    ELSE IF io = "renamefail" THEN Finding(CheckWarn, "warn", 6, "file", -1)
    ELSE NoFinding

writeStdout(io) ==
    When(io = "writefail", Finding(CheckError, "error", 4, "stdout", -1))

----------------------------------------------------------------------------
(* checkTemplate, GetAndCheckTemplate, CheckTemplate *)

\* the check of the shared flags without the override of the template
normalizeSharedKept(template) == template

\* "Override to ensure settings in pretty-print output are correct"
normalizeShared(template) ==
    IF template.shared # template.sharedProviderName
    THEN [template EXCEPT !.shared = TRUE, !.sharedProviderName = TRUE]
    ELSE template

sharedCheck(template) ==
    Join(When(template.shared /\ ~template.sharedProviderName,
              Finding(CheckError, "error", 1007, "shared", -1)),
         When(~template.shared /\ template.sharedProviderName,
              Finding(CheckInfo, "info", 1008, "sharedProviderName", -1)))

\* the checks of checkTemplate that precede the records
templateChecks(cf, fileName, coll, template, env) ==
    JoinAll(<<
        When(checkInvalidChars(template.providerId),
             Finding(CheckError, "error", 1002, "providerId", -1)),
        When(checkInvalidChars(template.serviceId),
             Finding(CheckError, "error", 1002, "serviceId", -1)),
        When(fileName # devStdin /\ Base(fileName) # ExpectedFileName(template),
             Finding(CheckError, "error", 1003, "expected", -1)),
        collisionCheck(coll, template),
        validateFindings(template),
        When(template.version = 0, Finding(CheckInfo, "info", 1006, "version", -1)),
        sharedCheck(template),
        When(isVariable(template.providerName),
             Finding(CheckError, "error", 1009, "providerName", -1)),
        When(isVariable(template.serviceName),
             Finding(CheckError, "error", 1009, "serviceName", -1)),
        \* isUnreachable: the answer of the network is env.logoOK
        When(cf.checkLogos /\ template.logoUrl # <<>> /\ ~env.logoOK,
             Finding(CheckWarn, "warn", 1010, "logoUrl", -1)),
        \* logged as errors, counted as warnings
        When(checkFQDN(template.syncPubKeyDomain),
             Finding(CheckWarn, "error", 1022, "SyncPubKeyDomain", -1)),
        [sev |-> CheckOK, log |-> checkSyncRedirectDomain(template.syncRedirectDomain).log],
        When(checkSyncRedirectDomain(template.syncRedirectDomain).err,
             Finding(CheckWarn, "error", 1022, "SyncRedirectDomain", -1)),
        When(template.warnPhishing /\ template.syncPubKeyDomain # <<>>,
             Finding(CheckInfo, "info", 1028, "warnPhishing", -1)),
        When(~template.syncBlock /\ template.syncPubKeyDomain = <<>>,
             Finding(CheckInfo, "info", 1029, "syncBlock", -1)),
        When(cf.cloudflare, cloudflareTemplateChecks(template)),
        When(Len(template.records) = 0, Finding(CheckError, "error", 1030, "records", -1)) >>)

\* the loop over template.Records; conf.duplicates and conflictingTypes are
\* made afresh before it
RECURSIVE checkRecords(_, _, _, _)
checkRecords(cf, template, i, acc) ==
    IF i > Len(template.records) THEN acc
    ELSE Once(checkRecord(cf, template, i - 1, template.records[i],
                          acc.conflictingTypes, acc.duplicates),
              LAMBDA r :
                Once([sev |-> SeverityOr(acc.sev, r.sev),
                      log |-> acc.log \cup r.log,
                      records |-> Append(acc.records, r.record),
                      conflictingTypes |-> r.conflictingTypes,
                      duplicates |-> r.duplicates],
                     LAMBDA next : checkRecords(cf, template, i + 1, next)))

NoOutput == [kind |-> "none"]

\* "Pretty printing and/or inplace write output": [f, out, written, crashed]
output(cf, template, env) ==
    IF ~(cf.prettyPrint \/ cf.inplace)
    THEN [f |-> NoFinding, out |-> NoOutput, written |-> "none", crashed |-> FALSE]
    ELSE Once(Marshal([template EXCEPT
                        !.version = IF cf.increment THEN @ + 1 ELSE @,
                        !.syncRedirectDomain = StripSpaces(@)]), LAMBDA m :
             IF m.res = "panic"
             THEN [f |-> NoFinding, out |-> NoOutput, written |-> "none", crashed |-> TRUE]
             ELSE IF m.res = "error"
             THEN [f |-> Finding(CheckError, "error", 3, "json", -1),
                   out |-> NoOutput, written |-> "none", crashed |-> FALSE]
             ELSE IF cf.inplace
             THEN [f |-> writeBack(env.io),
                   out |-> [kind |-> "json", t |-> m.t],
                   written |-> IF env.io = "ok" THEN "file" ELSE "none",
                   crashed |-> FALSE]
             ELSE [f |-> writeStdout(env.io),
                   out |-> [kind |-> "json", t |-> m.t],
                   written |-> IF env.io = "writefail" THEN "none" ELSE "stdout",
                   crashed |-> FALSE])

\* the duplicates of the document checked before are kept
resetDuplicatesSkipped(cf) == cf.duplicates

\* conf.duplicates = make(map[uint64]bool)
resetDuplicates(cf) == {}

\* checkTemplate: the severity, the log, the collision map and conf.duplicates
\* afterwards, the canonical output and the records as the caller sees them
\* afterwards
checkTemplate(cf, fileName, coll, template, env) ==
    Once(templateChecks(cf, fileName, coll, template, env), LAMBDA pre :
    Once(normalizeShared(template), LAMBDA t1 :
    Once(checkRecords(cf, t1, 1,
                    [sev |-> CheckOK, log |-> {}, records |-> <<>>,
                     conflictingTypes |-> <<>>, duplicates |-> resetDuplicates(cf)]),
         LAMBDA recs :
    Once(output(cf, [t1 EXCEPT !.records = recs.records], env), LAMBDA o :
        [sev |-> SeverityOr(SeverityOr(pre.sev, recs.sev), o.f.sev),
         log |-> pre.log \cup recs.log \cup o.f.log,
         collision |-> AddCollision(coll, template),
         duplicates |-> recs.duplicates,
         out |-> o.out,
         written |-> o.written,
         crashed |-> o.crashed,
         decoded |-> TRUE,
         template |-> [template EXCEPT !.records = recs.records]]))))

\* a decode failure that goes on to check the zero template
GetAndCheckTemplateNoReturn(cf, fileName, coll, input, env) ==
    Once(Decode(input), LAMBDA d :
    Once(checkTemplate(cf, fileName, coll, d.template, env), LAMBDA r :
        IF d.err THEN [r EXCEPT !.sev = SeverityOr(@, CheckFatal), !.decoded = FALSE] ELSE r))

\* GetAndCheckTemplate (CheckTemplate returns its severity)
GetAndCheckTemplate(cf, fileName, coll, input, env) ==
    Once(Decode(input), LAMBDA d :
        IF d.err
        THEN [sev |-> CheckFatal,
              log |-> {[lvl |-> "error", code |-> 3, key |-> "json", rnum |-> -1]},
              collision |-> coll,
              duplicates |-> cf.duplicates,
              out |-> NoOutput,
              written |-> "none",
              crashed |-> FALSE,
              decoded |-> FALSE,
              template |-> d.template]
        ELSE checkTemplate(cf, fileName, coll, d.template, env))

----------------------------------------------------------------------------
(* main: the exit status *)

Tolerations == {"any", "error", "warn", "info", "debug", "none", "verbose"}

\* the tolerance switch with every case one level too tolerant
TolerateShifted(sev, tol) ==
    IF tol \in {"any", "error"} THEN CheckOK
    ELSE IF tol = "warn" THEN BitAnd(sev, CheckFatal)
    ELSE IF tol = "info" THEN BitAnd(sev, CheckFatal + CheckError)
    ELSE IF tol = "debug" THEN BitAnd(sev, CheckFatal + CheckError + CheckWarn)
    ELSE sev

\* switch *toleration: what is left of exitVal is the exit status
Tolerate(sev, tol) ==
    IF tol = "any" THEN CheckOK
    ELSE IF tol = "error" THEN BitAnd(sev, CheckFatal)
    ELSE IF tol = "warn" THEN BitAnd(sev, CheckFatal + CheckError)
    ELSE IF tol = "info" THEN BitAnd(sev, CheckFatal + CheckError + CheckWarn)
    ELSE IF tol = "debug" THEN BitAnd(sev, CheckFatal + CheckError + CheckWarn + CheckInfo)
    ELSE sev

\* the exit status of a process that ends with a Go panic
PanicStatus == 2

----------------------------------------------------------------------------
(* The documents of the model, as they are on the wire *)

NoRecord ==
    [type |-> <<>>, groupId |-> <<>>, essential |-> <<>>, host |-> <<>>, name |-> <<>>,
     pointsTo |-> <<>>, ttl |-> <<>>, data |-> <<>>, txtCMM |-> <<>>, txtCMP |-> <<>>,
     priority |-> <<>>, weight |-> <<>>, port |-> <<>>, protocol |-> <<>>,
     service |-> <<>>, target |-> <<>>, spfRules |-> <<>>]

NoTemplate ==
    [providerId |-> <<>>, providerName |-> <<>>, serviceId |-> <<>>, serviceName |-> <<>>,
     version |-> <<>>, logoUrl |-> <<>>, shared |-> FALSE, syncBlock |-> FALSE,
     sharedProviderName |-> FALSE, sharedServiceName |-> FALSE,
     syncPubKeyDomain |-> <<>>, syncRedirectDomain |-> <<>>, multiInstance |-> FALSE,
     warnPhishing |-> FALSE, hostRequired |-> FALSE, records |-> <<>>]

tok300 == <<"3","0","0">>
strTcp == <<"_","t","c","p">>
strSip == <<"_","s","i","p">>
strKeyDomain == <<"k",".","e">>

\* an SRV record that passes every base check
srvRecord ==
    [NoRecord EXCEPT !.type = strSRV, !.name = <<"@">>, !.target = <<"t",".","e">>,
                     !.protocol = strTcp, !.service = strSip, !.ttl = tok300,
                     !.priority = <<"1">>, !.weight = <<"2">>, !.port = <<"8","0">>]

\* an A record that passes every base check
aRecord ==
    [NoRecord EXCEPT !.type = strA, !.host = <<"w">>, !.pointsTo = <<"1",".","2">>, !.ttl = tok300]

\* a template with one record that passes every base check
Doc(pid, sid, record) ==
    [NoTemplate EXCEPT !.providerId = pid, !.serviceId = sid,
                       !.providerName = <<"P">>, !.serviceName = <<"S">>,
                       !.version = <<"1">>, !.syncPubKeyDomain = strKeyDomain,
                       !.records = <<record>>]

File(pid, sid) == ToLower(pid) \o <<".">> \o ToLower(sid) \o dotJson

Input(t) == [wellFormed |-> TRUE, fileName |-> File(t.providerId, t.serviceId), t |-> t]

----------------------------------------------------------------------------
(* The run of main over its file arguments *)

idA == <<"a">>
idB == <<"b">>
idC == <<"c">>
idAslashB == <<"a","/","b">>
idBslashC == <<"b","/","c">>

\* what the file arguments of a run may hold: documents of every severity,
\* documents that share both ids, one id or the concatenation of their ids,
\* and a file that is not JSON
RunInputs ==
    { Input(Doc(idA, idB, srvRecord)),
      Input([Doc(idA, idC, srvRecord) EXCEPT !.version = <<>>]),
      Input([Doc(idB, idB, srvRecord) EXCEPT !.providerName = <<>>]),
      Input(Doc(idB, idC, [srvRecord EXCEPT !.host = <<"_","x">>])),
      Input(Doc(idAslashB, idC, srvRecord)),
      Input(Doc(idA, idBslashC, srvRecord)),
      [Input(Doc(idA, idB, srvRecord)) EXCEPT !.wellFormed = FALSE] }

\* the flags of a run: -cloudflare, -pretty and -inplace vary
RunConfs ==
    { [checkLogos |-> FALSE, cloudflare |-> c, inplace |-> i, increment |-> FALSE,
       prettyPrint |-> p, ttl |-> 0, duplicates |-> {}] :
        c \in BOOLEAN, p \in BOOLEAN, i \in {FALSE} }

\* the environment of one check: the logo server and the file system
RunEnvs == { [logoOK |-> TRUE, io |-> o] : o \in {"ok"} }

NoLast == [kind |-> "none"]
NoCall == [op |-> "none"]

\* the state after flag parsing and libdctlint.NewConf
Init ==
    /\ conf \in RunConfs
    /\ toleration \in Tolerations
    /\ nargs \in 0..MaxInputs
    /\ pc = "loop"
    /\ idx = 0
    /\ exitVal = CheckOK
    /\ collision = {}
    /\ last = NoLast
    /\ status = -1
    /\ seen = {}
    /\ call = NoCall

\* what the handling of one input leaves in last
Handled(kind, input, r, closeFails) ==
    [kind |-> kind, input |-> input, decoded |-> r.decoded, sev |-> r.sev, log |-> r.log,
     closeFails |-> closeFails, before |-> exitVal, collBefore |-> collision,
     seenBefore |-> seen, dupBefore |-> conf.duplicates]

Pair(t) == <<t.providerId, t.serviceId>>

\* os.Open fails, with exitVal overwritten
OpenFailOverwrites ==
    /\ pc = "loop" /\ 0 < nargs /\ idx < nargs
    /\ exitVal' = CheckError
    /\ idx' = idx + 1
    /\ last' = [kind |-> "openfail", before |-> exitVal, collBefore |-> collision,
                seenBefore |-> seen]
    /\ UNCHANGED <<pc, conf, toleration, nargs, collision, status, seen, call>>

\* os.Open fails: exitVal |= CheckError; continue
OpenFail ==
    /\ pc = "loop" /\ 0 < nargs /\ idx < nargs
    /\ exitVal' = SeverityOr(exitVal, CheckError)
    /\ idx' = idx + 1
    /\ last' = [kind |-> "openfail", before |-> exitVal, collBefore |-> collision,
                seenBefore |-> seen]
    /\ UNCHANGED <<pc, conf, toleration, nargs, collision, status, seen, call>>

\* one file argument: exitVal |= conf.CheckTemplate(...), then f.Close()
CheckFile ==
    /\ pc = "loop" /\ 0 < nargs /\ idx < nargs
    /\ \E input \in RunInputs, env \in RunEnvs, closeFails \in BOOLEAN :
        \E r \in {GetAndCheckTemplate(conf, input.fileName, collision, input, env)} :
        /\ last' = Handled("file", input, r, closeFails)
        /\ collision' = r.collision
        /\ conf' = [conf EXCEPT !.duplicates = r.duplicates]
        /\ seen' = IF r.decoded THEN seen \cup {Pair(r.template)} ELSE seen
        /\ IF r.crashed
           THEN /\ pc' = "crashed"
                /\ status' = PanicStatus
                /\ UNCHANGED <<exitVal, idx>>
           ELSE /\ exitVal' = SeverityOr(SeverityOr(exitVal, r.sev),
                                         IF closeFails THEN CheckFatal ELSE CheckOK)
                /\ idx' = idx + 1
                /\ UNCHANGED <<pc, status>>
    /\ UNCHANGED <<toleration, nargs, call>>

\* no file argument: the document is read from standard input, and
\* -inplace, -ttl and -increment are not passed on to the Conf
CheckStdin ==
    /\ pc = "loop" /\ nargs = 0 /\ last = NoLast
    /\ \E input \in RunInputs, env \in RunEnvs :
        \E r \in {GetAndCheckTemplate([conf EXCEPT !.inplace = FALSE, !.ttl = 0,
                                                     !.increment = FALSE],
                                       devStdin, collision, input, env)} :
        /\ last' = Handled("stdin", input, r, FALSE)
        /\ collision' = r.collision
        /\ conf' = [conf EXCEPT !.duplicates = r.duplicates]
        /\ seen' = IF r.decoded THEN seen \cup {Pair(r.template)} ELSE seen
        /\ IF r.crashed
           THEN /\ pc' = "crashed"
                /\ status' = PanicStatus
                /\ UNCHANGED exitVal
           ELSE /\ exitVal' = r.sev
                /\ UNCHANGED <<pc, status>>
    /\ UNCHANGED <<toleration, nargs, idx, call>>

\* after the last input: the tolerance switch and os.Exit(int(exitVal))
Exit ==
    /\ pc = "loop"
    /\ IF nargs = 0 THEN last # NoLast ELSE idx = nargs
    /\ status' = Tolerate(exitVal, toleration)
    /\ pc' = "exited"
    /\ UNCHANGED <<conf, toleration, nargs, idx, exitVal, collision, last, seen, call>>

Next == OpenFail \/ CheckFile \/ CheckStdin \/ Exit

Spec == Init /\ [][Next]_vars

----------------------------------------------------------------------------
(* The combination of severities, studied on its own *)

\* three severities are drawn; the other variables do not take part
InitCombine ==
    /\ pc = "call"
    /\ call \in [op : {"combine"}, a : Severities, b : Severities, c : Severities]
    /\ conf = [checkLogos |-> FALSE, cloudflare |-> FALSE, inplace |-> FALSE,
               increment |-> FALSE, prettyPrint |-> FALSE, ttl |-> 0, duplicates |-> {}]
    /\ toleration = "info"
    /\ nargs = 0
    /\ idx = 0
    /\ exitVal = CheckOK
    /\ collision = {}
    /\ last = NoLast
    /\ status = -1
    /\ seen = {}

\* exitVal |= ... in both orders and both groupings
Combine ==
    /\ pc = "call" /\ call.op = "combine"
    /\ pc' = "ret"
    /\ call' = [op |-> "combined", a |-> call.a, b |-> call.b, c |-> call.c,
                ab |-> SeverityOr(call.a, call.b),
                ba |-> SeverityOr(call.b, call.a),
                ab_c |-> SeverityOr(SeverityOr(call.a, call.b), call.c),
                a_bc |-> SeverityOr(call.a, SeverityOr(call.b, call.c)),
                ok_a |-> SeverityOr(CheckOK, call.a)]
    /\ UNCHANGED <<conf, toleration, nargs, idx, exitVal, collision, last, status, seen>>

NextCombine == Combine

SpecCombine == InitCombine /\ [][NextCombine]_vars

----------------------------------------------------------------------------
(* Properties of the run loop and of the severity combination *)

Codes(log) == {e.code : e \in log}

\* what handling the latest input contributed to exitVal
Contribution(l) ==
    IF l.kind = "openfail" THEN CheckError
    ELSE BitOr(l.sev, IF l.closeFails THEN CheckFatal ELSE CheckOK)

\* the level the tolerance lets pass, on the scale of MostSevere
Tolerated(tol) ==
    IF tol = "any" THEN 5
    ELSE IF tol = "error" THEN 4
    ELSE IF tol = "warn" THEN 3
    ELSE IF tol = "info" THEN 2
    ELSE IF tol = "debug" THEN 1
    ELSE 0

C2_ExitStatus ==
    pc = "exited" =>
        /\ toleration = "any" => status = 0
        /\ toleration = "error" => (status # 0 <=> Has(exitVal, CheckFatal))
        /\ toleration = "warn" =>
            (status # 0 <=> Has(exitVal, CheckError) \/ Has(exitVal, CheckFatal))
        /\ toleration = "info" =>
            (status # 0 <=> \E l \in {CheckWarn, CheckError, CheckFatal} : Has(exitVal, l))
        /\ toleration = "debug" =>
            (status # 0 <=>
                \E l \in {CheckInfo, CheckWarn, CheckError, CheckFatal} : Has(exitVal, l))
        /\ toleration = "none" => (status # 0 <=> exitVal # CheckOK)
        /\ status # 0 <=> MostSevere(exitVal) > Tolerated(toleration)
        /\ status = Tolerate(exitVal, toleration)

\* a run whose worst level is Warn, tolerated with warn: status zero although
\* levels are present
C2_Witness ==
    /\ pc = "exited" /\ toleration = "warn"
    /\ MostSevere(exitVal) = 3
    /\ status = 0

\* C3: combining severities is associative and commutative, OK is its
\* identity, and the most severe level of a combination is the larger of the
\* most severe levels of its operands.
C3_CombineAlgebra ==
    pc = "ret" /\ call.op = "combined" =>
        /\ call.ab = call.ba
        /\ call.ab_c = call.a_bc
        /\ call.ok_a = call.a
        /\ MostSevere(call.ab) = Max(MostSevere(call.a), MostSevere(call.b))

\* two operands that share a level and each hold one more
C3_Witness ==
    /\ pc = "ret" /\ call.op = "combined"
    /\ call.a = CheckInfo + CheckDebug
    /\ call.b = CheckError + CheckInfo
    /\ call.ab = CheckError + CheckInfo + CheckDebug

\* C4: a document that does not decode gets exactly Fatal, none of the
\* template or record checks (its only message is the decode error), and
\* leaves the collision set as it was.
C4_DecodeFailure ==
    last.kind \in {"file", "stdin"} /\ ~last.decoded =>
        /\ last.sev = CheckFatal
        /\ Codes(last.log) = {3}
        /\ collision = last.collBefore

\* a file that is not JSON, handled after a document was registered
C4_Witness ==
    /\ last.kind = "file" /\ ~last.decoded
    /\ last.collBefore # {}
    /\ idx = 2

\* C5: a decoded document whose providerId and serviceId both equal those
\* of an earlier decoded document of the run gets the collision Error, the
\* first document with a given pair gets no collision Error, and the
\* collision set only grows and holds the pair of every document checked.
C5_Collisions ==
    /\ last.kind \in {"file", "stdin"} /\ last.decoded =>
        LET p == Pair(last.input.t) IN
        /\ p \in last.seenBefore => Has(last.sev, CheckError) /\ 1004 \in Codes(last.log)
        /\ p \notin last.seenBefore => 1004 \notin Codes(last.log)
        /\ last.collBefore \subseteq collision
    /\ \A p \in seen : p[1] \o <<"/">> \o p[2] \in collision

----------------------------------------------------------------------------
(* The validation of one document, studied on its own: a configuration, a    *)
(* document, a collision set and an environment are drawn, the document is   *)
(* validated, and a base mode validation is followed by the strict mode      *)
(* validation of the same document in the same state                         *)

\* the largest number of records of a drawn document
MaxRecords == 3

BaseConf ==
    [checkLogos |-> FALSE, cloudflare |-> FALSE, inplace |-> FALSE, increment |-> FALSE,
     prettyPrint |-> FALSE, ttl |-> 0, duplicates |-> {}]

\* no output, -pretty, -inplace, and both with -increment and a -ttl default
OutputConfs ==
    { BaseConf,
      [BaseConf EXCEPT !.prettyPrint = TRUE],
      [BaseConf EXCEPT !.prettyPrint = TRUE, !.increment = TRUE],
      [BaseConf EXCEPT !.inplace = TRUE, !.ttl = 300],
      [BaseConf EXCEPT !.inplace = TRUE, !.increment = TRUE] }

WithStrict(confs) == UNION {{cf, [cf EXCEPT !.cloudflare = TRUE]} : cf \in confs}

QuietEnv == [logoOK |-> TRUE, io |-> "ok"]

CheckCall(op, cf, t, coll, env) ==
    [op |-> op, cf |-> cf, input |-> Input(t), coll |-> coll, env |-> env]

\* the two shared flags in every combination, on documents without records,
\* with a record that encodes and with one that does not
FlagCalls ==
    { CheckCall("flags", cf,
                [Doc(idA, idB, srvRecord) EXCEPT !.shared = sh, !.sharedProviderName = spn,
                                                 !.records = recs],
                {}, [logoOK |-> TRUE, io |-> io]) :
        cf \in WithStrict(OutputConfs), sh \in BOOLEAN, spn \in BOOLEAN,
        recs \in {<<>>, <<srvRecord>>, <<aRecord>>},
        io \in {"ok", "writefail", "renamefail"} }

\* records of type CNAME and A over two group ids and two hosts, two of the
\* (groupId, host) pairs having the same concatenation
CnameRecords ==
    { [aRecord EXCEPT !.type = ty, !.groupId = g, !.host = h] :
        ty \in {strCNAME, strA}, g \in {idA, idAslashB}, h \in {idC, idBslashC} }

CnameCalls ==
    { CheckCall("cname", cf, [Doc(idA, idB, srvRecord) EXCEPT !.records = recs], {}, QuietEnv) :
        cf \in WithStrict({BaseConf}),
        recs \in UNION {[1..k -> CnameRecords] : k \in 1..MaxRecords} }

\* TTL values as they are written in a document: in range, at and beyond
\* 2^31 and 2^32, negative, fractional, quoted, a placeholder, absent
TtlTokens ==
    { <<"0">>,
      <<"3","0","0">>,
      <<"2","1","4","7","4","8","3","6","4","7">>,
      <<"2","1","4","7","4","8","3","6","4","8">>,
      <<"4","2","9","4","9","6","7","2","9","5">>,
      <<"4","2","9","4","9","6","7","2","9","6">>,
      <<"-","1">>,
      <<"1",".","5">>,
      <<Quote,"3","0","0",Quote>>,
      <<Quote,"%","t","t","l","%",Quote>>,
      <<>> }

TtlCalls ==
    { CheckCall("ttl", cf, Doc(idA, idB, [aRecord EXCEPT !.ttl = tok]), {}, QuietEnv) :
        cf \in WithStrict({BaseConf, [BaseConf EXCEPT !.prettyPrint = TRUE],
                           [BaseConf EXCEPT !.inplace = TRUE, !.ttl = 300]}),
        tok \in TtlTokens }

PortTokens ==
    { <<"0">>,
      <<"1">>,
      <<"8","0">>,
      <<"6","5","5","3","5">>,
      <<"6","5","5","3","6">>,
      <<"-","1">>,
      <<Quote,"%","p","%",Quote>> }

Range31Tokens ==
    { <<"0">>,
      <<"1">>,
      <<"2","1","4","7","4","8","3","6","4","7">>,
      <<"2","1","4","7","4","8","3","6","4","8">>,
      <<"-","1">>,
      <<"4","2","9","4","9","6","7","2","9","6">> }

\* SRV records over the ports, priorities and weights, MX records over the
\* priorities
RangeCalls ==
    { CheckCall("srv", cf,
                Doc(idA, idB, [srvRecord EXCEPT !.port = po, !.priority = pr, !.weight = we]),
                {}, QuietEnv) :
        cf \in {BaseConf, [BaseConf EXCEPT !.prettyPrint = TRUE]},
        po \in PortTokens, pr \in Range31Tokens, we \in Range31Tokens }
    \cup
    { CheckCall("mx", cf,
                Doc(idA, idB, [aRecord EXCEPT !.type = strMX, !.priority = pr]),
                {}, QuietEnv) :
        cf \in WithStrict({BaseConf}), pr \in Range31Tokens }

\* records on which the base rules and the strict rules meet
StrictRecords ==
    { [aRecord EXCEPT !.type = ty, !.host = h, !.essential = es] :
        ty \in {strCNAME, strNS, strA, strAPEXCNAME}, h \in {<<"@">>, <<"w">>, <<>>},
        es \in {<<>>, strAlways} }
    \cup
    { [aRecord EXCEPT !.type = strTXT, !.pointsTo = <<>>, !.data = <<"d">>,
                      !.txtCMM = m, !.txtCMP = pf, !.ttl = tok] :
        m \in {<<>>, strNone, strPrefix}, pf \in {<<>>, <<"p">>},
        tok \in {<<"0">>, tok300} }

StrictCalls ==
    { CheckCall("strict", BaseConf,
                [Doc(idA, idB, rec) EXCEPT !.hostRequired = hr, !.syncBlock = sb,
                                           !.syncPubKeyDomain = key],
                coll, QuietEnv) :
        rec \in StrictRecords, hr \in BOOLEAN, sb \in BOOLEAN,
        key \in {<<>>, strKeyDomain}, coll \in {{}, {idA \o <<"/">> \o idB}} }

\* records that differ in one field, and one that differs from the first in
\* the way its TTL is written only
DupRecords ==
    { aRecord,
      [aRecord EXCEPT !.pointsTo = <<"1",".","3">>],
      [aRecord EXCEPT !.groupId = idA],
      [aRecord EXCEPT !.ttl = <<Quote,"3","0","0",Quote>>] }

DupCalls ==
    { CheckCall("dup", BaseConf, [Doc(idA, idB, srvRecord) EXCEPT !.records = recs], {}, QuietEnv) :
        recs \in UNION {[1..k -> DupRecords] : k \in 1..MaxRecords} }

\* syncPubKeyDomain and syncRedirectDomain with and without white space
\* around the domain names, which are valid once trimmed
SyncKeyDomains == { strKeyDomain, <<" ">> \o strKeyDomain, strKeyDomain \o <<" ">> }

SyncRedirectDomains ==
    { <<>>,
      <<"a",".","e">>,
      <<"a",".","e",",","b",".","e">>,
      <<"a",".","e",","," ","b",".","e">>,
      <<"a",".","e"," ",",","b",".","e">>,
      <<" ","a",".","e">>,
      <<"a",".","e","\t">> }

SyncCalls ==
    { CheckCall("sync", BaseConf,
                [Doc(idA, idB, srvRecord) EXCEPT !.syncPubKeyDomain = key,
                                                 !.syncRedirectDomain = srd],
                {}, QuietEnv) :
        key \in SyncKeyDomains, srd \in SyncRedirectDomains }

\* a number as it is, and quoted
Quoted(tok) == <<Quote>> \o tok \o <<Quote>>
EitherWay(tok) == {tok, Quoted(tok)}

\* documents whose version, ttl, priority, weight and port are written as
\* numbers or as quoted numbers, in every combination
QuotedCalls ==
    { CheckCall("quoted", BaseConf,
                [Doc(idA, idB, [srvRecord EXCEPT !.ttl = tt, !.priority = pr,
                                                 !.weight = we, !.port = po])
                    EXCEPT !.version = ve],
                {}, QuietEnv) :
        ve \in EitherWay(<<"1">>), tt \in EitherWay(tok300), pr \in EitherWay(<<"1">>),
        we \in EitherWay(<<"2">>), po \in EitherWay(<<"8","0">>) }

\* SRV records, which encode in every output mode, over placeholder, plain
\* and absent TTLs, with and without in-place mode and a TTL default
BackfillTokens ==
    { <<Quote,"%","t","t","l","%",Quote>>,
      <<Quote,"%","t","t","l",Quote>>,
      tok300,
      <<>> }

BackfillCalls ==
    { CheckCall("backfill", cf, Doc(idA, idB, [srvRecord EXCEPT !.ttl = tok]), {}, QuietEnv) :
        cf \in { [BaseConf EXCEPT !.inplace = TRUE, !.ttl = 300],
                 [BaseConf EXCEPT !.inplace = TRUE],
                 [BaseConf EXCEPT !.prettyPrint = TRUE, !.ttl = 300],
                 [BaseConf EXCEPT !.ttl = 300] },
        tok \in BackfillTokens }

\* documents that encode, over the shared flags, spaces in syncRedirectDomain,
\* versions and TTLs and ports written as numbers, quoted numbers and quoted
\* placeholders, in the two output modes
CanonTtls ==
    { tok300, Quoted(tok300), <<Quote,"%","t","t","l","%",Quote>>, <<"1",".","5">>, <<>> }

CanonCalls ==
    { CheckCall("canon", cf,
                [Doc(idA, idB, [srvRecord EXCEPT !.ttl = tt, !.port = po])
                    EXCEPT !.version = ve, !.shared = sh, !.sharedProviderName = spn,
                           !.syncRedirectDomain = srd],
                {}, QuietEnv) :
        cf \in { [BaseConf EXCEPT !.prettyPrint = TRUE],
                 [BaseConf EXCEPT !.inplace = TRUE, !.ttl = 300] },
        tt \in CanonTtls, po \in {<<"8","0">>, <<Quote,"%","p","%",Quote>>},
        ve \in {<<"1">>, <<>>}, sh \in BOOLEAN, spn \in BOOLEAN,
        srd \in {<<"a",".","e">>, <<"a",".","e"," ",","," ","b",".","e">>} }

\* a record of the type with every field the type requires
FullRecord(ty) ==
    IF ty \in {strCNAME, strNS, strA, strAAAA} THEN [aRecord EXCEPT !.type = ty]
    ELSE IF ty = strMX THEN [aRecord EXCEPT !.type = ty, !.priority = <<"1">>]
    ELSE IF ty = strTXT THEN [aRecord EXCEPT !.type = ty, !.pointsTo = <<>>, !.data = <<"d">>]
    ELSE IF ty = strSRV THEN srvRecord
    ELSE IF ty = strSPFM
        THEN [NoRecord EXCEPT !.type = ty, !.host = <<"w">>, !.spfRules = <<"m","x">>]
    ELSE IF ty \in {strREDIR301, strREDIR302}
        THEN [NoRecord EXCEPT !.type = ty, !.host = <<"w">>, !.target = <<"t",".","e">>]
    ELSE [aRecord EXCEPT !.type = ty]

\* the vocabulary of types, a type in lower case and a type outside of it
Vocabulary ==
    {strCNAME, strNS, strA, strAAAA, strTXT, strMX, strSRV, strSPFM, strAPEXCNAME,
     strREDIR301, strREDIR302}

ReqTypes == Vocabulary \cup {ToLower(strCNAME), <<"X">>}

ReqProtocols ==
    { strTcp, <<"_","T","C","P">>, <<"_","u","d","p">>, <<"_","t","l","s">>,
      <<"x">>, <<>>, <<"%","p","%">>, <<"t","%">> }

\* the full record of each type, the same with one field emptied, with the
\* host "@", and SRV records over the protocols; hostRequired both ways
ReqRecords ==
    UNION { {FullRecord(ty), [FullRecord(ty) EXCEPT !.host = <<"@">>]}
            \cup { [FullRecord(ty) EXCEPT ![f] = <<>>] :
                        f \in {"host", "pointsTo", "data", "target", "service", "spfRules"} } :
            ty \in ReqTypes }
    \cup { [srvRecord EXCEPT !.protocol = p] : p \in ReqProtocols }

ReqCalls ==
    { CheckCall("req", cf, [Doc(idA, idB, rec) EXCEPT !.hostRequired = hr], {}, QuietEnv) :
        cf \in WithStrict({BaseConf}), rec \in ReqRecords, hr \in BOOLEAN }

\* the outcomes of the write-back: the temporary file cannot be created, the
\* copy into the buffered writer fails, the flush fails, the rename fails
WriteOutcomes == {"ok", "createfail", "writefail", "flushfail", "renamefail"}

\* documents that encode, with and without findings of their own, written
\* back under every outcome
WriteCalls ==
    { CheckCall("write", [BaseConf EXCEPT !.inplace = TRUE],
                [Doc(idA, idB, srvRecord) EXCEPT !.shared = sh, !.version = ve],
                {}, [logoOK |-> TRUE, io |-> io]) :
        sh \in BOOLEAN, ve \in {<<"1">>, <<"0">>}, io \in WriteOutcomes }

\* the ids of the documents validated earlier, and the collision map they
\* leave behind
EarlierPairs == { <<idA, idB>>, <<idAslashB, idC>> }
KeyOfPair(p) == p[1] \o <<"/">> \o p[2]

\* documents validated after one earlier document: with its ids, with other
\* ids that concatenate to the same text, and with ids of their own
KeyCalls ==
    { CheckCall("key", BaseConf, Doc(pid, sid, srvRecord), {KeyOfPair(e)}, QuietEnv) :
        e \in EarlierPairs,
        pid \in {idA, idB}, sid \in {idB, idC, idBslashC} }

CheckCalls ==
    KeyCalls \cup WriteCalls \cup ReqCalls \cup CanonCalls \cup BackfillCalls \cup QuotedCalls \cup FlagCalls \cup CnameCalls \cup TtlCalls \cup RangeCalls \cup StrictCalls \cup DupCalls
    \cup SyncCalls

InitCheck ==
    /\ pc = "call"
    /\ call \in CheckCalls
    /\ conf = call.cf
    /\ collision = call.coll
    /\ toleration = "info"
    /\ nargs = 1
    /\ idx = 0
    /\ exitVal = CheckOK
    /\ last = NoLast
    /\ status = -1
    /\ seen = {}

\* conf.GetAndCheckTemplate on the drawn document
Validate ==
    /\ pc = "call" /\ call.op \in {"flags", "cname", "ttl", "srv", "mx", "strict", "dup", "sync",
                                  "quoted", "backfill", "canon", "req", "write", "key"}
    /\ \E r \in {GetAndCheckTemplate(conf, call.input.fileName, collision, call.input,
                                     call.env)} :
        /\ call' = [op |-> call.op, cf |-> call.cf, input |-> call.input,
                    coll |-> call.coll, env |-> call.env, r |-> r,
                    legacy |-> GetUnmarshalStatus(call.input)]
        /\ collision' = r.collision
        /\ conf' = [conf EXCEPT !.duplicates = r.duplicates]
        /\ exitVal' = IF r.crashed THEN exitVal ELSE r.sev
        /\ pc' = IF r.crashed THEN "crashed" ELSE "ret"
    /\ UNCHANGED <<toleration, nargs, idx, last, status, seen>>

\* the same document validated by a Conf that differs in SetCloudflare(true)
\* only, from the same collision set
ValidateStrict ==
    /\ pc = "ret" /\ ~conf.cloudflare /\ "r" \in DOMAIN call /\ "strict" \notin DOMAIN call
    /\ \E r \in {GetAndCheckTemplate([call.cf EXCEPT !.cloudflare = TRUE], call.input.fileName,
                                     call.coll, call.input, call.env)} :
        /\ call' = [op |-> call.op, cf |-> call.cf, input |-> call.input,
                    coll |-> call.coll, env |-> call.env, r |-> call.r,
                    legacy |-> call.legacy, strict |-> r]
        /\ pc' = IF r.crashed THEN "crashed" ELSE "ret2"
    /\ UNCHANGED <<conf, toleration, nargs, idx, exitVal, collision, last, status, seen>>

\* the document that was written, validated again by the same Conf from the
\* same collision set
Canonicalize ==
    /\ pc = "ret" /\ ~conf.increment /\ "r" \in DOMAIN call /\ "strict" \notin DOMAIN call
    /\ call.r.written # "none"
    /\ \E r \in {GetAndCheckTemplate(call.cf, call.input.fileName, call.coll,
                                     [call.input EXCEPT !.t = call.r.out.t], call.env)} :
        /\ call' = [op |-> call.op, cf |-> call.cf, input |-> call.input,
                    coll |-> call.coll, env |-> call.env, r |-> call.r,
                    legacy |-> call.legacy, again |-> r]
        /\ pc' = IF r.crashed THEN "crashed" ELSE "ret3"
    /\ UNCHANGED <<conf, toleration, nargs, idx, exitVal, collision, last, status, seen>>

NextCheck == Validate \/ ValidateStrict \/ Canonicalize

SpecCheck == InitCheck /\ [][NextCheck]_vars

----------------------------------------------------------------------------
(* Properties of the validation of one document *)

\* the records of the drawn document, as written
Drawn == call.input.t.records

\* the two base findings that strict mode gives up: host "@" on CNAME and NS
\* without hostRequired, and Prefix matching without a prefix on TXT
Replaced(e) ==
    \/ e.code = 1012
    \/ e.code = 1013 /\ e.lvl = "warn" /\ e.key = "txtConflictMatchingPrefix"

CnameFindings == {e \in call.r.log : e.code = 1011}

\* records i < j of the drawn document with the same groupId and the same
\* host, one of them a CNAME
Clash(i, j) ==
    /\ i < j
    /\ Drawn[i].groupId = Drawn[j].groupId
    /\ Drawn[i].host = Drawn[j].host
    /\ Drawn[i].type = strCNAME \/ Drawn[j].type = strCNAME

\* C7: if two records at different positions have the same groupId and the
\* same host and one of them is a CNAME, the severity of the document
\* includes Error, raised on a record after the first of the two; a document
\* in which no (groupId, host) pair is shared by a CNAME and another record
\* gets no CNAME-exclusivity Error.
C7_CnameExclusive ==
    pc \in {"ret", "ret2"} /\ call.op = "cname" =>
        /\ \A i, j \in 1..Len(Drawn) :
            Clash(i, j) =>
                /\ Has(call.r.sev, CheckError)
                /\ \E e \in CnameFindings : e.rnum + 1 > i
        /\ (~\E i, j \in 1..Len(Drawn) : Clash(i, j)) => CnameFindings = {}

TtlAboveMax == {<<"2","1","4","7","4","8","3","6","4","8">>, <<"4","2","9","4","9","6","7","2","9","5">>, <<"4","2","9","4","9","6","7","2","9","6">>}
TtlNegativeOrFraction == {<<"-","1">>, <<"1",".","5">>}

\* the TTL range findings of the validated document
TtlFindings == {e \in call.r.log : e.code = 1015 /\ e.key = "ttl"}

\* C8: a TTL that is negative, larger than 2147483647 (values at or above
\* 2^32 included) or not an integer yields Error, and 2147483647 yields no
\* TTL Error.
C8_TtlRange ==
    pc \in {"ret", "ret2"} /\ call.op = "ttl" =>
        /\ Drawn[1].ttl \in TtlAboveMax \cup TtlNegativeOrFraction =>
                Has(call.r.sev, CheckError) /\ TtlFindings # {}
        /\ Drawn[1].ttl = <<"2","1","4","7","4","8","3","6","4","7">> => TtlFindings = {}

PortOutside == {<<"0">>, <<"6","5","5","3","6">>, <<"-","1">>}
Range31Outside == {<<"2","1","4","7","4","8","3","6","4","8">>, <<"-","1">>, <<"4","2","9","4","9","6","7","2","9","6">>}

\* the range findings of the validated document on a field
RangeFindings(key) == {e \in call.r.log : e.code = 1015 /\ e.key = key}

\* C9: an SRV record yields Error when its port is outside [1, 65535] or its
\* priority or weight is outside [0, 2^31-1], an MX record when its priority
\* is outside [0, 2^31-1]; values inside these ranges yield no range Error.
C9_SrvMxRanges ==
    /\ pc \in {"ret", "ret2"} /\ call.op = "srv" =>
        /\ Drawn[1].port \in PortOutside =>
                Has(call.r.sev, CheckError) /\ RangeFindings("port") # {}
        /\ Drawn[1].priority \in Range31Outside =>
                Has(call.r.sev, CheckError) /\ RangeFindings("priority") # {}
        /\ Drawn[1].weight \in Range31Outside =>
                Has(call.r.sev, CheckError) /\ RangeFindings("weight") # {}
        /\ Drawn[1].port \in PortTokens \ PortOutside => RangeFindings("port") = {}
        /\ Drawn[1].priority \in Range31Tokens \ Range31Outside =>
                RangeFindings("priority") = {}
        /\ Drawn[1].weight \in Range31Tokens \ Range31Outside => RangeFindings("weight") = {}
    /\ pc \in {"ret", "ret2"} /\ call.op = "mx" =>
        /\ Drawn[1].priority \in Range31Outside =>
                Has(call.r.sev, CheckError) /\ RangeFindings("priority") # {}
        /\ Drawn[1].priority \in Range31Tokens \ Range31Outside =>
                RangeFindings("priority") = {}

\* C10: shared without sharedProviderName yields Error, sharedProviderName
\* without shared yields Info, and in both cases the canonical output of the
\* same validation has both flags true; a document whose flags are equal
\* gets neither finding and keeps its flags.
C10_SharedFlags ==
    pc \in {"ret", "ret2"} =>
        LET t == call.input.t
            r == call.r
        IN
        /\ t.shared /\ ~t.sharedProviderName =>
                Has(r.sev, CheckError) /\ 1007 \in Codes(r.log)
        /\ ~t.shared /\ t.sharedProviderName =>
                Has(r.sev, CheckInfo) /\ 1008 \in Codes(r.log)
        /\ t.shared # t.sharedProviderName /\ r.out.kind = "json" =>
                r.out.t.shared /\ r.out.t.sharedProviderName
        /\ t.shared = t.sharedProviderName =>
                /\ Codes(r.log) \cap {1007, 1008} = {}
                /\ r.out.kind = "json" =>
                        /\ r.out.t.shared = t.shared
                        /\ r.out.t.sharedProviderName = t.sharedProviderName

\* shared alone, validated with output: Error, and both flags true in the
\* output that was written
C10_Witness ==
    /\ pc = "ret"
    /\ call.input.t.shared /\ ~call.input.t.sharedProviderName
    /\ Has(call.r.sev, CheckError)
    /\ call.r.out.kind = "json"
    /\ call.r.written = "file"
    /\ call.r.out.t.shared /\ call.r.out.t.sharedProviderName

----------------------------------------------------------------------------
(* The checks of one string, studied on their own: a character, a field, an  *)
(* SPF rule text or a host with a record type is drawn and given to the      *)
(* function                                                                   *)

\* the largest number of pieces a drawn text is put together from
MaxPieces == 3

RECURSIVE Concat(_)
Concat(ps) == IF Len(ps) = 0 THEN <<>> ELSE Head(ps) \o Concat(Tail(ps))

\* every text put together from one to MaxPieces pieces
Texts(pieces) == { Concat(ps) : ps \in UNION {[1..k -> pieces] : k \in 1..MaxPieces} }

\* every character of the model
Chars == { Ascii[i] : i \in 1..Len(Ascii) } \cup {"\t", "\n", "\r"}

strHostVar == <<"%","h","o","s","t","%">>

\* fields of a record: placeholders opened, closed and left open, with
\* allowed and denied characters inside and outside of them, the placeholder
\* %host%, and every character alone between two %
FieldTexts ==
    Texts({<<"%">>, <<"a">>, <<"!">>, <<"-">>, <<".">>, strHostVar})
    \cup { <<"%", c, "%">> : c \in Chars }
    \cup { <<"%","h","o","s","t","n","a","m","e","%">>,
           <<"%","h","o","s","t","-","n","a","m","e","!","%">>,
           <<"%","u","n","t","e","r","m","i","n","a","t","e","d">>,
           <<"p","r","e","f","i","x">> \o strHostVar \o <<"s","u","f","f","i","x">>,
           <<>> }

\* the fields of an SPF rule text with what each of them is: a permitted
\* mechanism, the mechanism all, a redirect or exp modifier, another modifier,
\* a placeholder, a mechanism that is not permitted
SpfFields ==
    { [kind |-> "permitted", text |-> <<"i","n","c","l","u","d","e",":","_","s","p","f",".","e",".","c","o","m">>],
      [kind |-> "permitted", text |-> <<"?","m","x">>],
      [kind |-> "permitted", text |-> <<"i","n","c","l","u","d","e",":","m",".","m","a","l","l">>],
      [kind |-> "all", text |-> <<"~","a","l","l">>],
      [kind |-> "all", text |-> <<"a","l","l">>],
      [kind |-> "redirect", text |-> <<"r","e","d","i","r","e","c","t","=","_","s","p","f",".","e",".","c","o","m">>],
      [kind |-> "redirect", text |-> <<"r","e","d","i","r","e","c","t","=","_","s","p","f","2",".","e",".","c","o","m">>],
      [kind |-> "exp", text |-> <<"e","x","p","=","e",".","c","o","m">>],
      [kind |-> "modifier", text |-> <<"f","o","o","=","x">>],
      [kind |-> "modifier", text |-> <<"v","=","s","p","f","1">>],
      [kind |-> "placeholder", text |-> <<"%","v","%">>],
      [kind |-> "unknown", text |-> <<"b","a","d",":","x">>] }

\* the fields separated by one space
RECURSIVE JoinFields(_)
JoinFields(fs) ==
    IF Len(fs) = 0 THEN <<>>
    ELSE IF Len(fs) = 1 THEN fs[1].text
    ELSE fs[1].text \o <<" ">> \o JoinFields(Tail(fs))

\* rule texts of no field (empty, or white space only) and of one to
\* MaxPieces fields
SpfCalls ==
    { [op |-> "spf", fields |-> <<>>, rules |-> t] : t \in {<<>>, <<" ">>} }
    \cup { [op |-> "spf", fields |-> fs, rules |-> JoinFields(fs)] :
                fs \in UNION {[1..k -> SpfFields] : k \in 1..MaxPieces} }

\* host labels: in and out of the table of reserved labels, in either case
\* of letters, and with underscores first, second, later, inside and outside
\* of placeholders
HostLabels ==
    { <<"_","d","m","a","r","c">>, <<"_","D","M","A","R","C">>, <<"_","t","c","p">>,
      <<"_","s","i","p">>, <<"_","d","n","s">>, <<"_","f","o","o">>,
      <<"_","t","a","-","1">>, <<"_","%","x","%">>, <<"w","w","w">>,
      <<"_","a","_","b">>, <<"a","_","b">>, <<"a","b","_","c">>, <<"a","b","c","_">>,
      <<"%","a","_","b","%">>, <<"x","%","a","_","b","%">>, <<"x","y","%","_","%">>,
      <<"x","y","%","a","_","b","%","_","z">>, <<"a","_","%","b","%">>,
      <<"%","a","%","_","b">> }

\* record types as a record may spell them
HostTypes ==
    { strA, strAAAA, strTXT, strCNAME, strNS, strSRV, strMX, <<"t","x","t">>,
      <<"T","L","S","A">>, <<"U","R","I">>, <<"S","V","C","B">>, strSPFM }

strExampleCom == <<"e","x","a","m","p","l","e",".","c","o","m">>

\* one label alone, before and after a domain without underscores
UnderscoreCalls ==
    UNION { { [op |-> "underscore", rrtype |-> ty, label |-> l, host |-> h] :
                ty \in HostTypes,
                h \in {l, l \o <<".">> \o strExampleCom, strExampleCom \o <<".">> \o l} } :
            l \in HostLabels }

FieldCalls ==
    UnderscoreCalls \cup
    { [op |-> "denied", c |-> c] : c \in Chars }
    \cup { [op |-> "string", input |-> t] : t \in FieldTexts }
    \cup SpfCalls

InitField ==
    /\ pc = "call"
    /\ call \in FieldCalls
    /\ conf = BaseConf
    /\ toleration = "info"
    /\ nargs = 0
    /\ idx = 0
    /\ exitVal = CheckOK
    /\ collision = {}
    /\ last = NoLast
    /\ status = -1
    /\ seen = {}

\* isDenied(c)
CallIsDenied ==
    /\ pc = "call" /\ call.op = "denied"
    /\ call' = [op |-> call.op, c |-> call.c, r |-> isDenied(call.c)]
    /\ pc' = "ret"
    /\ UNCHANGED <<conf, toleration, nargs, idx, exitVal, collision, last, status, seen>>

\* checkSingleString(input, rlog)
CallCheckSingleString ==
    /\ pc = "call" /\ call.op = "string"
    /\ call' = [op |-> call.op, input |-> call.input,
                r |-> checkSingleString(call.input, "host", 0)]
    /\ pc' = "ret"
    /\ UNCHANGED <<conf, toleration, nargs, idx, exitVal, collision, last, status, seen>>

\* checkSPFRules(rules, rlog)
CallCheckSPFRules ==
    /\ pc = "call" /\ call.op = "spf"
    /\ call' = [op |-> call.op, fields |-> call.fields, rules |-> call.rules,
                r |-> checkSPFRules(call.rules, 0)]
    /\ pc' = "ret"
    /\ UNCHANGED <<conf, toleration, nargs, idx, exitVal, collision, last, status, seen>>

\* conf.checkUnderscoreNames(rrtype, host)
CallCheckUnderscoreNames ==
    /\ pc = "call" /\ call.op = "underscore"
    /\ call' = [op |-> call.op, rrtype |-> call.rrtype, label |-> call.label,
                host |-> call.host, r |-> checkUnderscoreNames(call.rrtype, call.host, 0)]
    /\ pc' = "ret"
    /\ UNCHANGED <<conf, toleration, nargs, idx, exitVal, collision, last, status, seen>>

NextField ==
    CallIsDenied \/ CallCheckSingleString \/ CallCheckSPFRules \/ CallCheckUnderscoreNames

SpecField == InitField /\ [][NextField]_vars

----------------------------------------------------------------------------
(* Goroutines that call GetAndCheckTemplate of the earlier library, which    *)
(* decodes under the package mutex mu: SetLogger locks it, UnmarshalJSON     *)
(* writes the package variable exitVal, GetUnmarshalStatus reads exitVal and *)
(* unlocks                                                                   *)

MaxProcs == 2
MaxCalls == 3

Procs == 1..MaxProcs

\* the SINT values of the documents, in the order they are decoded: none,
\* a number, a quoted number, a quoted number before a number, no number
LockDocs ==
    { <<>>,
      <<tok300>>,
      <<Quoted(tok300)>>,
      <<Quoted(tok300), <<"1">>>>,
      <<Quoted(<<"a">>)>> }

Idle == [at |-> "idle", doc |-> <<>>, i |-> 0, err |-> FALSE, ret |-> -1, fresh |-> -1]

InitLock ==
    /\ pc = "lock"
    /\ call = [op |-> "lock", mu |-> FALSE, unmatched |-> 0, sideExitVal |-> CheckOK,
               started |-> 0, bug |-> FALSE, unlockedTwice |-> FALSE,
               g |-> [p \in Procs |-> Idle]]
    /\ conf = BaseConf
    /\ toleration = "info"
    /\ nargs = 0
    /\ idx = 0
    /\ exitVal = CheckOK
    /\ collision = {}
    /\ last = NoLast
    /\ status = -1
    /\ seen = {}

LockFrame == UNCHANGED <<pc, conf, toleration, nargs, idx, exitVal, collision, last, status, seen>>

\* a goroutine calls GetAndCheckTemplate on a document
LockStart(p) ==
    /\ pc = "lock" /\ call.g[p].at = "idle" /\ call.started < MaxCalls
    /\ \E doc \in LockDocs :
        call' = [call EXCEPT !.started = @ + 1,
                             !.g[p] = [Idle EXCEPT !.at = "setlogger", !.doc = doc,
                                                   !.fresh = LegacyDecode(doc, 1, CheckOK).exitVal]]
    /\ LockFrame

\* internal.SetLogger: mu.Lock() blocks while the mutex is held
LockSetLogger(p) ==
    /\ pc = "lock" /\ call.g[p].at = "setlogger" /\ ~call.mu
    /\ call' = [call EXCEPT !.mu = TRUE, !.unmatched = @ + 1,
                            !.g[p].at = "decode", !.g[p].i = 1]
    /\ LockFrame

\* decoder.Decode calls SINT.UnmarshalJSON on the next value: a TryLock that
\* succeeds keeps the mutex and fails the decoding; otherwise exitVal is set
LockUnmarshalJSON(p) ==
    /\ pc = "lock" /\ call.g[p].at = "decode" /\ call.g[p].i <= Len(call.g[p].doc)
    /\ \E r \in {LegacyUnmarshalJSON(call.g[p].doc[call.g[p].i])} :
        call' = IF ~call.mu
                THEN [call EXCEPT !.mu = TRUE, !.bug = TRUE,
                                  !.g[p].err = TRUE, !.g[p].at = "status"]
                ELSE [call EXCEPT !.sideExitVal = r.exitVal,
                                  !.g[p].err = r.err,
                                  !.g[p].i = @ + 1,
                                  !.g[p].at = IF r.err THEN "status" ELSE "decode"]
    /\ LockFrame

\* decoder.Decode returns after the last value
LockDecoded(p) ==
    /\ pc = "lock" /\ call.g[p].at = "decode" /\ call.g[p].i > Len(call.g[p].doc)
    /\ call' = [call EXCEPT !.g[p].at = "status"]
    /\ LockFrame

\* the mutex stays locked after the status is read
LockGetUnmarshalStatusKeepsLock(p) ==
    /\ pc = "lock" /\ call.g[p].at = "status"
    /\ call' = [call EXCEPT !.unmatched = @ - 1,
                            !.g[p].at = "idle",
                            !.g[p].ret = IF call.g[p].err THEN CheckFatal ELSE call.sideExitVal]
    /\ LockFrame

\* exitVal := internal.GetUnmarshalStatus(), which unlocks, and the return of
\* GetAndCheckTemplate: Fatal when the decoding failed, else the status (to
\* which the severity of checkTemplate is added)
LockGetUnmarshalStatus(p) ==
    /\ pc = "lock" /\ call.g[p].at = "status"
    /\ call' = [call EXCEPT !.mu = FALSE,
                            !.unlockedTwice = @ \/ ~call.mu,
                            !.unmatched = @ - 1,
                            !.g[p].at = "idle",
                            !.g[p].ret = IF call.g[p].err THEN CheckFatal ELSE call.sideExitVal]
    /\ LockFrame

LockStep(p) ==
    LockStart(p) \/ LockSetLogger(p) \/ LockUnmarshalJSON(p) \/ LockDecoded(p)
        \/ LockGetUnmarshalStatus(p)

NextLock == \E p \in Procs : LockStep(p)

SpecLock == InitLock /\ [][NextLock]_vars

\* a goroutine that can run does run, and a goroutine that waits for the
\* mutex gets it when it is released again and again
SpecLockFair ==
    /\ SpecLock
    /\ \A p \in Procs :
        /\ WF_vars(LockUnmarshalJSON(p) \/ LockDecoded(p) \/ LockGetUnmarshalStatus(p))
        /\ SF_vars(LockSetLogger(p))

----------------------------------------------------------------------------
(* Properties of the placeholder check *)

\* the 64 characters of [A-Za-z0-9_-]
PlaceholderChars ==
    { Upper[i] : i \in 1..26 } \cup { Lower[i] : i \in 1..26 } \cup { Digits[i] : i \in 1..10 }
    \cup {"_", "-"}

\* the number of % before position i
PercentsBefore(t, i) == Cardinality({ j \in 1..(i - 1) : t[j] = "%" })

\* some character outside the 64 stands where a placeholder span is open
DeniedInOpenSpan(t) ==
    \E i \in 1..Len(t) :
        t[i] # "%" /\ t[i] \notin PlaceholderChars /\ PercentsBefore(t, i) % 2 = 1

\* C13: checkSingleString yields Warn exactly when, every % toggling the
\* placeholder span, a character outside [A-Za-z0-9_-] occurs while a span is
\* open (isDenied rejects exactly the characters outside those 64); the
\* result is then Warn alone; "%hostname%" yields OK and "%host-name!%" Warn.
C13_PlaceholderChars ==
    /\ pc = "ret" /\ call.op = "denied" => (call.r <=> call.c \notin PlaceholderChars)
    /\ pc = "ret" /\ call.op = "string" =>
        /\ Has(call.r.sev, CheckWarn) <=> DeniedInOpenSpan(call.input)
        /\ DeniedInOpenSpan(call.input) =>
                /\ call.r.sev = CheckWarn
                /\ Codes(call.r.log) = {1019}
        /\ call.input = <<"%","h","o","s","t","n","a","m","e","%">> => call.r.sev = CheckOK
        /\ call.input = <<"%","h","o","s","t","-","n","a","m","e","!","%">> =>
                call.r.sev = CheckWarn

\* a denied character in the second span of a field that also holds %host%
\* and is left open: Warn alone
C13_Witness ==
    /\ pc = "ret" /\ call.op = "string"
    /\ call.input = strHostVar \o <<"%", "!">>
    /\ call.r.sev = CheckWarn

\* C14: every field that ends with an unterminated placeholder (an odd
\* number of %) and has no disallowed character inside a placeholder span
\* yields Error, whatever else the field contains.
C14_Unterminated ==
    pc = "ret" /\ call.op = "string" =>
        (Count(call.input, "%") % 2 = 1 /\ ~DeniedInOpenSpan(call.input) =>
            Has(call.r.sev, CheckError))

----------------------------------------------------------------------------
(* Properties of the SPF rule check *)

\* the number of fields of a kind
KindCount(fs, kind) == Cardinality({ i \in 1..Len(fs) : fs[i].kind = kind })

\* what the rules of SPF texts ask for: Error for the empty text, a text that
\* begins with v=spf1, a text that ends with the mechanism all, a modifier
\* other than redirect and exp, a second redirect or exp, a mechanism that is
\* not permitted
SpfWantsError(c) ==
    \/ c.rules = <<>>
    \/ HasPrefix(c.rules, <<"v","=","s","p","f","1">>)
    \/ Len(c.fields) > 0 /\ c.fields[Len(c.fields)].kind = "all"
    \/ KindCount(c.fields, "modifier") > 0
    \/ KindCount(c.fields, "redirect") > 1
    \/ KindCount(c.fields, "exp") > 1
    \/ KindCount(c.fields, "unknown") + KindCount(c.fields, "all") > 0

\* C15: checkSPFRules returns Error exactly when the rule text is empty,
\* begins with v=spf1, ends with a bare all mechanism, or holds a field that
\* is no placeholder and is a modifier other than redirect and exp, a second
\* redirect or exp, or a mechanism whose keyword is not one of include, a,
\* mx, ptr, ip4, ip6, exists; every other rule text returns no Error.
C15_SpfRules ==
    pc = "ret" /\ call.op = "spf" =>
        (Has(call.r.sev, CheckError) <=> SpfWantsError(call))

----------------------------------------------------------------------------
(* Properties of the underscore label check *)

\* the record types the table of reserved labels permits for a label, as
\* their names; the label is given in lower case
Reserved(label) == \E e \in rfc8552 : e.label = label
PermittedTypes(label) ==
    { p[1] : p \in { q \in recordToType :
                        q[2] \in (CHOOSE e \in rfc8552 : e.label = label).types } }

\* C16: for a host label that begins with an underscore: a label absent from
\* the table of reserved labels yields Debug and nothing more severe; a label
\* of the table yields no finding when the record type is NS or CNAME or one
\* of the permitted types of the label, and Info otherwise; _dmarc.example.com
\* yields no Info on a TXT record and Info on an A record.
C16_ReservedLabels ==
    pc = "ret" /\ call.op = "underscore" /\ Head(call.label) = "_" =>
        LET label == ToLower(call.label)
            type == ToUpper(call.rrtype)
        IN
        /\ ~Reserved(label) => call.r.sev = CheckDebug
        /\ Reserved(label) /\ type \in {strNS, strCNAME} \cup PermittedTypes(label) =>
                call.r = NoFinding
        /\ Reserved(label) /\ type \notin {strNS, strCNAME} \cup PermittedTypes(label) =>
                call.r.sev = CheckInfo
        /\ call.host = <<"_","d","m","a","r","c",".">> \o strExampleCom =>
                /\ call.rrtype = strTXT => ~Has(call.r.sev, CheckInfo)
                /\ call.rrtype = strA => Has(call.r.sev, CheckInfo)

\* _dmarc.example.com on an A record: Info
C16_Witness ==
    /\ pc = "ret" /\ call.op = "underscore"
    /\ call.host = <<"_","d","m","a","r","c",".">> \o strExampleCom
    /\ call.rrtype = strA
    /\ call.r.sev = CheckInfo
    /\ Codes(call.r.log) = {1021}

\* an underscore that is not the first character of the label and stands
\* outside of every placeholder span
StaticInnerUnderscore(label) ==
    \E i \in 2..Len(label) : label[i] = "_" /\ PercentsBefore(label, i) % 2 = 0

\* C17: every host label with an underscore at a position other than its
\* first, outside of every placeholder span, yields Info; a label whose only
\* non-leading underscores lie between two % yields no such Info.
C17_InnerUnderscore ==
    pc = "ret" /\ call.op = "underscore" =>
        /\ StaticInnerUnderscore(call.label) =>
                Has(call.r.sev, CheckInfo) /\ 1025 \in Codes(call.r.log)
        /\ ~StaticInnerUnderscore(call.label) => 1025 \notin Codes(call.r.log)

----------------------------------------------------------------------------
(* Properties of the checks of the sync domains *)

\* white space before or after the text
OuterSpace(t) == Len(t) > 0 /\ (IsSpaceC(t[1]) \/ IsSpaceC(t[Len(t)]))

\* C18: if syncPubKeyDomain or a comma separated entry of syncRedirectDomain
\* carries leading or trailing white space, the severity returned for the
\* document includes Warn, also when every entry is a valid domain name once
\* trimmed.
C18_SyncDomainSpace ==
    pc \in {"ret", "ret2"} /\ call.op = "sync" =>
        LET t == call.input.t
            entries == Split(t.syncRedirectDomain, ",")
        IN  (OuterSpace(t.syncPubKeyDomain) \/ \E i \in 1..Len(entries) : OuterSpace(entries[i]))
                => Has(call.r.sev, CheckWarn)

----------------------------------------------------------------------------
(* Properties of the decoding of quoted numbers *)

\* some SINT value or the version of the document is a quoted number
AnyQuoted(t) ==
    \/ Head(t.version) = Quote
    \/ \E i \in 1..Len(SintTokens(t)) : Head(SintTokens(t)[i]) = Quote

\* C19: a document in which a ttl, priority, weight, port or version is
\* written as a quoted number decodes (no Fatal) and its severity includes
\* the Warn of the diagnostic for a number written as a string, wherever the
\* quoted value stands and whatever numbers are decoded after it.
C19_QuotedNumbers ==
    pc \in {"ret", "ret2"} /\ call.op = "quoted" /\ AnyQuoted(call.input.t) =>
        /\ call.r.decoded
        /\ ~Has(call.r.sev, CheckFatal)
        /\ Has(call.r.sev, CheckWarn)
        /\ ~call.legacy.err
        /\ Has(call.legacy.exitVal, CheckWarn)

----------------------------------------------------------------------------
(* Properties of the duplicate detection *)

\* the records of a document as decoded
DecodedRecords(t) == [i \in 1..Len(t.records) |-> DecodeRecord(t.records[i])]

\* the positions (from zero) of the records that equal an earlier record of
\* the same document field for field
Repeats(t) ==
    { j - 1 : j \in { k \in 1..Len(t.records) :
                        \E i \in 1..(k - 1) : DecodedRecords(t)[i] = DecodedRecords(t)[k] } }

\* the positions on which a log holds the duplicate warning
Flagged(log) == { e.rnum : e \in { x \in log : x.code = 1023 /\ x.lvl = "warn" } }

\* C11: within one document, checked in document order, every record that
\* equals an earlier record of the document field for field yields Warn, and
\* a record without an equal earlier record yields no duplicate finding.
C11_DuplicatesWithin ==
    pc \in {"ret", "ret2"} =>
        /\ Flagged(call.r.log) = Repeats(call.input.t)
        /\ Repeats(call.input.t) # {} => Has(call.r.sev, CheckWarn)

\* a record, another one, and the first again: the third alone is flagged
C11_Witness ==
    /\ pc = "ret" /\ call.op = "dup"
    /\ Len(Drawn) = 3
    /\ Drawn[1] = Drawn[3] /\ Drawn[1] # Drawn[2]
    /\ Flagged(call.r.log) = {2}
    /\ call.r.sev = CheckWarn

\* C12: the duplicate set is scoped to one document: it is made afresh when
\* the record checks of a document start, so that after any sequence of
\* checks on one Conf a record is flagged only for an equal earlier record of
\* its own document, never for a record of a document validated before.
C12_DuplicatesPerDocument ==
    last.kind \in {"file", "stdin"} /\ last.decoded =>
        /\ Flagged(last.log) = Repeats(last.input.t)
        /\ conf.duplicates =
                { DecodedRecords(last.input.t)[i] : i \in 1..Len(last.input.t.records) }

\* a second document whose record equals the record of the document checked
\* before it, and is not flagged
C12_Witness ==
    /\ idx = 2 /\ last.kind = "file" /\ last.decoded
    /\ last.dupBefore # {}
    /\ DecodedRecords(last.input.t)[1] \in last.dupBefore
    /\ Flagged(last.log) = {}

----------------------------------------------------------------------------
(* Properties of what the validation changes in the records *)

\* the record differs from the decoded one in its TTL
TtlChanged(before, after) == after.ttl # before.ttl

C21_TtlBackfill ==
    pc \in {"ret", "ret2", "crashed"} /\ "r" \in DOMAIN call /\ call.r.decoded
        /\ call.cf.inplace /\ 0 < call.cf.ttl =>
        \A i \in 1..Len(call.r.template.records) :
            requiresTTL(DecodedRecords(call.input.t)[i].type)
                /\ isVariable(DecodedRecords(call.input.t)[i].ttl)
            => call.r.template.records[i].ttl = SetUint32(call.cf.ttl)

----------------------------------------------------------------------------
(* Properties of the canonical output *)

\* C22: a document that was written in canonical form, without a version
\* increment, and is canonicalized again by the same configuration comes out
\* as the same document: flags, syncRedirectDomain, version and the encoding
\* of ttl, priority, weight and port included.
C22_CanonicalIdempotent ==
    pc = "ret3" =>
        /\ call.again.decoded
        /\ call.again.out = call.r.out

\* a document whose flags, syncRedirectDomain and TTL all change in the first
\* canonical output has been canonicalized twice
C22_Witness ==
    /\ pc = "ret3"
    /\ call.input.t.shared # call.input.t.sharedProviderName
    /\ call.r.out.t.syncRedirectDomain # call.input.t.syncRedirectDomain
    /\ call.r.out.t.records[1].ttl # call.input.t.records[1].ttl
    /\ call.again.out.kind = "json"

----------------------------------------------------------------------------
(* Properties of the required fields of each type *)

\* the one record of the drawn document and the findings of its validation
Rec == call.input.t.records[1]
Logged(lvl, code) == \E e \in call.r.log : e.lvl = lvl /\ e.code = code

\* a missing required field yields Error
RequiredFields ==
    /\ Rec.type \in {strCNAME, strNS, strA, strAAAA, strMX}
            /\ (Rec.host = <<>> \/ Rec.pointsTo = <<>>) => Has(call.r.sev, CheckError)
    /\ Rec.type = strTXT /\ (Rec.host = <<>> \/ Rec.data = <<>>) => Has(call.r.sev, CheckError)
    /\ Rec.type = strSRV /\ (Rec.target = <<>> \/ Rec.service = <<>>)
            => Has(call.r.sev, CheckError)
    /\ Rec.type = strSPFM /\ (Rec.host = <<>> \/ Rec.spfRules = <<>>)
            => Has(call.r.sev, CheckError)
    /\ Rec.type \in {strREDIR301, strREDIR302} /\ Rec.target = <<>>
            => Has(call.r.sev, CheckError)

\* CNAME and NS at "@" in base mode: Error exactly when hostRequired is false
HostAtApex ==
    Rec.type \in {strCNAME, strNS} /\ Rec.host = <<"@">> /\ ~call.cf.cloudflare
        /\ Rec.pointsTo # <<>> =>
        (Has(call.r.sev, CheckError) <=> ~call.input.t.hostRequired)

\* an SRV protocol outside _tcp, _udp, _tls: Warn and not Error
ProtocolOutside ==
    Rec = [srvRecord EXCEPT !.protocol = Rec.protocol]
        /\ ToLower(Rec.protocol) \notin {strTcp, <<"_","u","d","p">>, <<"_","t","l","s">>} =>
        Has(call.r.sev, CheckWarn) /\ ~Has(call.r.sev, CheckError)

\* a type outside the vocabulary: Info and no required-field Error
UnusualType ==
    Rec.type \notin Vocabulary =>
        /\ Has(call.r.sev, CheckInfo)
        /\ ~Logged("error", 1013) /\ ~Logged("error", 8) /\ ~Logged("error", 1012)

\* C23: the required-field contract of each record type, the type compared
\* case-sensitively: a missing required field yields Error, CNAME or NS at
\* "@" in base mode yields Error exactly when hostRequired is false, an SRV
\* protocol outside _tcp, _udp, _tls (in any case) yields Warn and not
\* Error, and a type outside the vocabulary yields Info and no
\* required-field Error.
C23_RequiredFields ==
    pc \in {"ret", "ret2"} /\ call.op = "req" =>
        RequiredFields /\ HostAtApex /\ ProtocolOutside /\ UnusualType

----------------------------------------------------------------------------
(* Properties of the write-back *)

\* the severity of the drawn document when nothing is written
Unwritten ==
    GetAndCheckTemplate([call.cf EXCEPT !.inplace = FALSE, !.prettyPrint = FALSE],
                        call.input.fileName, call.coll, call.input, call.env).sev

\* C24: the in-place write-back adds to the severity of the document Warn
\* when the rename of the temporary file fails, Fatal when the output cannot
\* be written, and nothing when it succeeds; the severity accumulated before
\* is kept in every case.
C24_WriteBack ==
    pc \in {"ret", "ret2"} /\ call.op = "write" =>
        /\ call.env.io = "ok" => call.r.sev = Unwritten
        /\ call.env.io = "renamefail" => call.r.sev = SeverityOr(Unwritten, CheckWarn)
        /\ call.env.io \in {"writefail", "flushfail"} =>
                call.r.sev = SeverityOr(Unwritten, CheckFatal)

----------------------------------------------------------------------------
(* Properties of the running map of record types *)

\* the first record of the drawn document with the key of record j
FirstAtKey(j) ==
    CHOOSE i \in 1..j :
        /\ ConflictKey(Drawn[i]) = ConflictKey(Drawn[j])
        /\ \A k \in 1..(i - 1) : ConflictKey(Drawn[k]) # ConflictKey(Drawn[j])

\* record j got the CNAME-exclusivity Error
CnameFlagged(j) == \E e \in call.r.log : e.code = 1011 /\ e.rnum = j - 1

\* C25: the map of record types keeps the type that was declared first at a
\* key: a record whose key was seen before is flagged with the
\* CNAME-exclusivity Error iff it is a CNAME or the first record declared
\* at that key is a CNAME, however many records share the key.
C25_FirstDeclaredType ==
    pc \in {"ret", "ret2"} /\ call.op = "cname" =>
        \A j \in 1..Len(Drawn) :
            FirstAtKey(j) < j =>
                (CnameFlagged(j) <=>
                    Drawn[j].type = strCNAME \/ Drawn[FirstAtKey(j)].type = strCNAME)

----------------------------------------------------------------------------
(* Properties of the findings and the severity *)

\* the level of the log at which a finding of the severity level is emitted
LogLevel(bit) ==
    IF bit = CheckDebug THEN "debug"
    ELSE IF bit = CheckInfo THEN "info"
    ELSE IF bit = CheckWarn THEN "warn"
    ELSE IF bit = CheckError THEN "error"
    ELSE "fatal"

\* C26: for a document that decodes, the returned severity includes a level
\* iff a coded finding was emitted at that level while validating it.
C26_SeverityMatchesFindings ==
    pc \in {"ret", "ret2"} /\ call.r.decoded =>
        \A bit \in {CheckDebug, CheckInfo, CheckWarn, CheckError, CheckFatal} :
            Has(call.r.sev, bit) <=>
                \E e \in call.r.log : e.lvl = LogLevel(bit) /\ e.code # 0

----------------------------------------------------------------------------
(* Properties of the decoding under the package mutex *)

Decoding(p) == call.g[p].at \in {"decode", "status"}

\* the mutex is held iff a SetLogger is not yet matched, which is so for at
\* most one call; no UnmarshalJSON took the mutex, and no unlocked mutex was
\* unlocked; two calls never decode at the same time
LockProtocol ==
    /\ call.mu <=> call.unmatched > 0
    /\ call.unmatched \in {0, 1}
    /\ ~call.bug
    /\ ~call.unlockedTwice
    /\ \A p, q \in Procs : Decoding(p) /\ Decoding(q) => p = q

\* C27: the package mutex is held iff a SetLogger call is not yet matched by
\* GetUnmarshalStatus, every call releases it exactly once whether the
\* decoding succeeds or fails, UnmarshalJSON never leaves it held, the
\* decodings of concurrent calls exclude one another, and every call that
\* has started returns.
C27_LockProtocol ==
    /\ [](pc = "lock" => LockProtocol)
    /\ \A p \in Procs : (call.g[p].at = "setlogger") ~> (call.g[p].at = "idle")

\* a call decodes a document that fails to decode while another call waits
\* for the mutex
C27_Witness ==
    /\ pc = "lock"
    /\ \E p, q \in Procs :
        /\ call.g[p].at = "status" /\ call.g[p].err
        /\ call.g[q].at = "setlogger"

\* C28: the decode-time status that a call returns is the status of its own
\* document, whatever was decoded before it, also for a document without
\* any SINT value.
C28_StatusOfOwnDocument ==
    pc = "lock" =>
        \A p \in Procs :
            call.g[p].ret # -1 /\ call.g[p].ret # CheckFatal =>
                call.g[p].ret = call.g[p].fresh

----------------------------------------------------------------------------
(* Properties of the keys of the two maps *)

\* the collision Error is raised only on the ids of an earlier document
CollisionOnlyOnSamePair ==
    call.op = "key" /\ Logged("error", 1004) =>
        \E e \in EarlierPairs :
            /\ KeyOfPair(e) \in call.coll
            /\ e = <<call.input.t.providerId, call.input.t.serviceId>>

\* the CNAME-exclusivity Error is raised only on the groupId and host of an
\* earlier record
CnameOnlyOnSamePair ==
    call.op = "cname" =>
        \A j \in 1..Len(Drawn) :
            CnameFlagged(j) =>
                \E i \in 1..(j - 1) :
                    Drawn[i].groupId = Drawn[j].groupId /\ Drawn[i].host = Drawn[j].host

\* C29: the keys of the two maps are injective: the collision Error is raised
\* only when an earlier document had the same providerId and the same
\* serviceId, and the CNAME-exclusivity Error only when an earlier record had
\* the same groupId and the same host.
C29_KeysInjective ==
    pc \in {"ret", "ret2"} => CollisionOnlyOnSamePair /\ CnameOnlyOnSamePair

----------------------------------------------------------------------------
(* Properties of the encoding of the records *)

\* C30: the canonical output of a document that decodes never ends
\* abruptly: also for records that omit ttl, priority, weight or port,
\* SINT.MarshalJSON is not called or returns, so that pretty-print and
\* in-place mode end with a severity.
C30_EncodingReturns ==
    "r" \in DOMAIN call /\ call.r.decoded /\ (call.cf.prettyPrint \/ call.cf.inplace) =>
        /\ ~call.r.crashed
        /\ pc # "crashed"

====
